---- MODULE Spec2Model ----
(***************************************************************************)
(* The portfolio calculation engine of criptofolio                         *)
(* (src/services/calculationService.ts) and the React state around it      *)
(* (the App component, src/types.ts).                                      *)
(*                                                                         *)
(* JavaScript numbers are modelled as exact rationals <<n, d>> (d > 0, in  *)
(* lowest terms): quantities in coins, money in the portfolio's fiat unit. *)
(* Map objects are sequences of entries in insertion order.                *)
(***************************************************************************)
EXTENDS Integers, Sequences, FiniteSets, TLC

(***************************************************************************)
(* Exact arithmetic on numbers                                             *)
(***************************************************************************)
Abs(n) == IF n < 0 THEN -n ELSE n

RECURSIVE GCD(_, _)
GCD(a, b) == IF b = 0 THEN a ELSE GCD(b, a % b)

Norm(n, d) == LET g == GCD(Abs(n), d) IN <<n \div g, d \div g>>

Num(n) == <<n, 1>>
Zero == <<0, 1>>

Add(x, y) ==
    LET g == GCD(x[2], y[2])
    IN  Norm(x[1] * (y[2] \div g) + y[1] * (x[2] \div g), (x[2] \div g) * y[2])

Neg(x) == <<-x[1], x[2]>>
Sub(x, y) == Add(x, Neg(y))

Mul(x, y) ==
    LET g1 == GCD(Abs(x[1]), y[2])
        g2 == GCD(Abs(y[1]), x[2])
    IN  Norm((x[1] \div g1) * (y[1] \div g2), (x[2] \div g2) * (y[2] \div g1))

\* x / y for y # 0
Div(x, y) ==
    IF y[1] > 0 THEN Mul(x, <<y[2], y[1]>>) ELSE Mul(x, <<-y[2], -y[1]>>)

Less(x, y) ==
    LET g == GCD(x[2], y[2])
    IN  x[1] * (y[2] \div g) < y[1] * (x[2] \div g)

Leq(x, y) == ~Less(y, x)
Pos(x) == x[1] > 0

(***************************************************************************)
(* Inputs                                                                  *)
(***************************************************************************)
\* the longest transaction list explored
MaxTx == 3

\* 0.00000001, the epsilon below which a holding snaps to zero
EPSILON == <<1, 100000000>>

\* a date string "YYYY-MM-DD" is <<year, month, day>>
Day1 == <<2024, 1, 10>>
Day2 == <<2024, 1, 20>>

\* a quantity below the epsilon, and one exactly at it
Dust == <<1, 200000000>>
AtEps == <<1, 100000000>>

Tx(type, date, asset, quantity, value) ==
    [type |-> type, date |-> date, asset |-> asset, quantity |-> quantity, value |-> value]

\* what the transaction form can submit (quantity > 0, value > 0): an asset
\* traded in whole coins and an asset traded in amounts around the epsilon
LedgerInputs ==
    { Tx("buy", d, "BTC", Num(q), Num(v)) : d \in {Day1, Day2}, q \in {1, 2}, v \in {100, 300} }
    \cup
    { Tx("sell", d, "BTC", Num(q), Num(v)) : d \in {Day1, Day2}, q \in {1, 2}, v \in {100, 500} }
    \cup
    { Tx(t, Day1, "SHIB", q, Num(100)) : t \in {"buy", "sell"}, q \in {Dust, AtEps} }

\* a day of 2023, the first day of 2024 and a later day of 2024
TaxDates == { <<2023, 6, 10>>, <<2024, 1, 1>>, <<2024, 3, 15>> }

\* trades whose monthly proceeds fall below, on and above 35000
TaxInputs ==
    { Tx("buy", d, "BTC", Num(2), Num(v)) : d \in TaxDates, v \in {10000, 40000} }
    \cup
    { Tx("sell", d, "BTC", Num(qv[1]), Num(qv[2])) :
        d \in TaxDates, qv \in {<<1, 35000>>, <<2, 35000>>, <<1, 40000>>} }
    \cup
    { Tx("buy", <<2024, 3, 15>>, "ETH", Num(2), Num(10000)),
      Tx("sell", <<2024, 3, 15>>, "ETH", Num(1), Num(40000)) }

\* the date field of the transaction form cleared: the string ""
EmptyDate == <<>>

\* what the form submits when its date field may have been cleared (the form
\* validates asset, quantity and value only)
TaxDateInputs ==
    { Tx("buy", d, "BTC", Num(2), Num(10000)) : d \in {<<2024, 3, 15>>, EmptyDate} }
    \cup
    { Tx("sell", d, "BTC", Num(1), Num(v)) :
        d \in {<<2024, 3, 15>>, EmptyDate}, v \in {35000, 40000} }

\* the day the clock shows (in UTC) when the history is computed
Today == <<2024, 3, 1>>

\* two days before today, with 29 February between them; today; and a day
\* that is yet to come
HistoryDates == { <<2024, 2, 28>>, <<2024, 3, 1>>, <<2024, 3, 3>> }

\* trades in an asset quoted live and in one that is not
HistoryInputs ==
    { Tx("buy", d, "BTC", Num(qv[1]), Num(qv[2])) :
        d \in HistoryDates, qv \in {<<1, 100>>, <<2, 300>>} }
    \cup
    { Tx("sell", d, "BTC", Num(1), Num(500)) : d \in HistoryDates }
    \cup
    { Tx("buy", d, "ETH", Num(1), Num(50)) : d \in HistoryDates }

\* trades dated up to today in an asset traded in whole coins and in one
\* traded in amounts around the epsilon
ReconcileInputs ==
    { Tx("buy", d, "ETH", Num(1), Num(50)) : d \in {<<2024, 2, 28>>, Today} }
    \cup
    { Tx("sell", d, "ETH", Num(2), Num(50)) : d \in {<<2024, 2, 28>>, Today} }
    \cup
    { Tx("buy", <<2024, 2, 28>>, "SHIB", q, Num(100)) : q \in {Dust, AtEps} }
    \cup
    { Tx("sell", <<2024, 2, 28>>, "SHIB", Dust, Num(100)) }

\* a value that is absent: undefined
Undefined == <<>>

\* the daily closes that were fetched: BTC lacks 29 February, ETH lacks today
historicalPrices ==
    [s \in {"BTC", "ETH"} |->
        IF s = "BTC"
        THEN (<<2024, 2, 28>> :> Num(200)) @@ (<<2024, 3, 1>> :> Num(999))
        ELSE (<<2024, 2, 28>> :> Num(60)) @@ (<<2024, 2, 29>> :> Num(70))]

\* the live price map at a time when BTC and ETH are quoted and SHIB is not
rebalanceQuotes ==
    [s \in {"BTC", "ETH"} |-> [price |-> IF s = "BTC" THEN Num(400) ELSE Num(100)]]

\* a row of performanceData as the rebalance section passes it on
Row(symbol, totalQuantity, currentValue) ==
    [symbol |-> symbol, totalQuantity |-> Num(totalQuantity),
     currentValue |-> Num(currentValue)]

\* per symbol: no row, the zero row of a symbol that is only a target, or a
\* holding valued at the quotes above (SHIB, unquoted, is valued 0)
RowChoices(symbol) ==
    IF symbol = "ETH" THEN { <<>>, <<Row("ETH", 1, 100)>>, <<Row("ETH", 3, 300)>> }
    ELSE IF symbol = "BTC" THEN { <<>>, <<Row("BTC", 0, 0)>>, <<Row("BTC", 1, 400)>> }
    ELSE { <<>>, <<Row("SHIB", 0, 0)>>, <<Row("SHIB", 5, 0)>> }

\* per symbol: no key in targetAllocations, or a percentage
TargetChoices(symbol) ==
    { <<>> } \cup { << [symbol |-> symbol, percent |-> Num(pct)] >> : pct \in {0, 20, 50, 80} }

\* a withdrawal, nothing, one cent and a deposit
CapitalChanges == { Num(-500), Zero, <<1, 100>>, Num(100) }

RebalanceSymbols == {"BTC", "ETH", "SHIB"}

\* the arguments of calculateRebalanceSuggestions other than cryptoData
RebalanceInputs ==
    { [performanceData   |-> eth \o btc \o shib,
       targetAllocations |-> tb \o te \o ts,
       anchoredAssets    |-> anchored,
       capitalChange     |-> change] :
        eth \in RowChoices("ETH"), btc \in RowChoices("BTC"), shib \in RowChoices("SHIB"),
        tb \in TargetChoices("BTC"), te \in TargetChoices("ETH"),
        ts \in TargetChoices("SHIB"),
        anchored \in SUBSET RebalanceSymbols, change \in CapitalChanges }

\* the years the tax section can be asked for
SelectedYears == {2023, 2024}

\* where the browser runs: behind UTC, or on it
TimeZones == {"America/Sao_Paulo", "UTC"}

\* the live price map: SHIB has no quote
cryptoData == [s \in {"BTC"} |-> [price |-> Num(400)]]

PriceOrZero(symbol) ==
    IF symbol \in DOMAIN cryptoData THEN cryptoData[symbol].price ELSE Zero

\* trades shown on the dashboard: gains and losses in a quoted asset, and an
\* unquoted asset bought or sold without a prior buy
DashboardInputs ==
    { Tx("buy", Day1, "BTC", Num(1), Num(v)) : v \in {100, 300} }
    \cup
    { Tx("sell", Day1, "BTC", Num(1), Num(v)) : v \in {100, 500} }
    \cup
    { Tx(t, Day1, "SHIB", AtEps, Num(100)) : t \in {"buy", "sell"} }

Plan(targets, change, anchored) ==
    [performanceData |-> <<>>, targetAllocations |-> targets,
     anchoredAssets |-> anchored, capitalChange |-> change]

\* rebalance plans the section can hold: no targets, a deposit into one asset,
\* an even split with and without a withdrawal of everything, and plans
\* around an anchored asset
PlanChoices ==
    { Plan(<<>>, Zero, {}),
      Plan(<< [symbol |-> "BTC", percent |-> Num(100)] >>, Num(100), {}),
      Plan(<< [symbol |-> "BTC", percent |-> Num(50)],
              [symbol |-> "SHIB", percent |-> Num(50)] >>, Zero, {}),
      Plan(<< [symbol |-> "BTC", percent |-> Num(50)],
              [symbol |-> "SHIB", percent |-> Num(50)] >>, Num(-500), {}),
      Plan(<< [symbol |-> "SHIB", percent |-> Num(100)] >>, Num(100), {"BTC"}),
      Plan(<< [symbol |-> "BTC", percent |-> Num(100)] >>, Zero, {"BTC"}) }

\* what is added, imported or put in place of a transaction being edited
AccountInputs ==
    { Tx("buy", Day1, "BTC", Num(1), Num(100)), Tx("sell", Day2, "BTC", Num(1), Num(500)) }

\* the files that are imported hold up to two rows
MaxImport == 2

\* ids are followed up to this value
IdLimit == MaxTx + 2

(***************************************************************************)
(* State                                                                   *)
(***************************************************************************)
VARIABLES
    accountTransactions,  \* acc.transactions of the active account
    activeTransactions,   \* the memoised array handed to the calculations
    pc,                   \* where the render is
    idx,                  \* position of forEach in the running fold
    assetMap,             \* calculateAssetPerformance's Map
    performanceData,      \* its result
    profitMap,            \* calculateProfitAnalysis's Map
    analysisData,         \* its result
    timeZone,             \* the time zone of the environment
    taxReport,            \* calculateTaxReport's result, <<>> before the first call
    historyPoints,        \* calculatePortfolioHistory's result
    rebalanceInput,       \* what the rebalance section holds: holdings, targets, anchors
    suggestions,          \* calculateRebalanceSuggestions' result
    simulationInput,      \* the arguments of calculateSimulatedPortfolioHistory
    simulation,           \* its locals and the series it builds, <<>> before the call
    metrics,              \* calculateProfitAnalysisMetrics' result, <<>> before the call
    rebalancePlan,        \* lockedAllocations and anchoredAssets of the plan
    alerts,               \* the price alerts
    liveQuote,            \* cryptoData as the alert effect sees it
    toasts                \* the ids of the alerts notified so far, in order of the toasts

vars == <<accountTransactions, activeTransactions, pc, idx, assetMap,
          performanceData, profitMap, analysisData, timeZone, taxReport,
          historyPoints, rebalanceInput, suggestions, simulationInput,
          simulation, metrics, rebalancePlan, alerts, liveQuote, toasts>>

(***************************************************************************)
(* Array.prototype.sort with (a, b) => getTime(a.date) - getTime(b.date)   *)
(***************************************************************************)
\* new Date("YYYY-MM-DD").getTime(), up to an increasing rescaling
getTime(date) == (date[1] * 12 + (date[2] - 1)) * 31 + (date[3] - 1)

\* insert tx after every element that does not compare greater (stable)
RECURSIVE InsertByDate(_, _)
InsertByDate(sorted, tx) ==
    IF sorted = <<>> THEN <<tx>>
    ELSE IF getTime(sorted[Len(sorted)].date) - getTime(tx.date) > 0
         THEN Append(InsertByDate(SubSeq(sorted, 1, Len(sorted) - 1), tx),
                     sorted[Len(sorted)])
         ELSE Append(sorted, tx)

RECURSIVE SortByDate(_)
SortByDate(txs) ==
    IF txs = <<>> THEN <<>>
    ELSE InsertByDate(SortByDate(SubSeq(txs, 1, Len(txs) - 1)), txs[Len(txs)])

(***************************************************************************)
(* Map helpers (insertion-ordered)                                         *)
(***************************************************************************)
MapHas(map, key) == \E i \in 1..Len(map) : map[i].symbol = key
MapGet(map, key) == map[CHOOSE i \in 1..Len(map) : map[i].symbol = key]
MapSet(map, entry) ==
    IF MapHas(map, entry.symbol)
    THEN [i \in 1..Len(map) |-> IF map[i].symbol = entry.symbol THEN entry ELSE map[i]]
    ELSE Append(map, entry)

(***************************************************************************)
(* calculateAssetPerformance                                               *)
(***************************************************************************)
\* ApplyLedgerTx without lines 19-22 (the clamp is forgotten)
ApplyLedgerTx_NoClamp(map, tx) ==
    LET asset == IF MapHas(map, tx.asset) THEN MapGet(map, tx.asset)
                 ELSE [symbol |-> tx.asset, totalQuantity |-> Zero, totalInvested |-> Zero]
    IN  IF tx.type = "buy"
        THEN [asset EXCEPT !.totalQuantity = Add(@, tx.quantity),
                           !.totalInvested = Add(@, Mul(tx.quantity, tx.value))]
        ELSE LET avgCost == IF Pos(asset.totalQuantity)
                            THEN Div(asset.totalInvested, asset.totalQuantity)
                            ELSE Zero
             IN  [asset EXCEPT !.totalInvested = Sub(@, Mul(tx.quantity, avgCost)),
                               !.totalQuantity = Sub(@, tx.quantity)]

\* the body of the forEach callback: the asset's entry after tx
ApplyLedgerTx(map, tx) ==
    LET asset == IF MapHas(map, tx.asset) THEN MapGet(map, tx.asset)
                 ELSE [symbol |-> tx.asset, totalQuantity |-> Zero, totalInvested |-> Zero]
        moved ==
            IF tx.type = "buy"
            THEN [asset EXCEPT !.totalQuantity = Add(@, tx.quantity),
                               !.totalInvested = Add(@, Mul(tx.quantity, tx.value))]
            ELSE LET avgCost == IF Pos(asset.totalQuantity)
                                THEN Div(asset.totalInvested, asset.totalQuantity)
                                ELSE Zero
                 IN  [asset EXCEPT !.totalInvested = Sub(@, Mul(tx.quantity, avgCost)),
                                   !.totalQuantity = Sub(@, tx.quantity)]
    IN  IF Less(moved.totalQuantity, EPSILON)
        THEN [moved EXCEPT !.totalQuantity = Zero, !.totalInvested = Zero]
        ELSE moved

\* assetMap after the first k callbacks over txs
RECURSIVE LedgerFold(_, _)
LedgerFold(txs, k) ==
    IF k = 0 THEN <<>>
    ELSE LET before == LedgerFold(txs, k - 1)
         IN  MapSet(before, ApplyLedgerTx(before, txs[k]))

\* an asset's entry, or the entry a first transaction starts from
LedgerEntry(map, symbol) ==
    IF MapHas(map, symbol) THEN MapGet(map, symbol)
    ELSE [symbol |-> symbol, totalQuantity |-> Zero, totalInvested |-> Zero]

PerformanceRow(data) ==
    LET currentPrice == PriceOrZero(data.symbol)
        currentValue == Mul(data.totalQuantity, currentPrice)
        profitLoss   == Sub(currentValue, data.totalInvested)
    IN  [symbol |-> data.symbol,
         totalQuantity |-> data.totalQuantity,
         totalInvested |-> data.totalInvested,
         currentValue |-> currentValue,
         profitLoss |-> profitLoss,
         variation |-> IF Pos(data.totalInvested)
                       THEN Mul(Div(profitLoss, data.totalInvested), Num(100))
                       ELSE Zero]

\* PerformanceRows with line 28 reading "< 0"
RECURSIVE PerformanceRows_KeepsZero(_)
PerformanceRows_KeepsZero(map) ==
    IF map = <<>> THEN <<>>
    ELSE LET rest == PerformanceRows_KeepsZero(SubSeq(map, 1, Len(map) - 1))
             data == map[Len(map)]
         IN  IF Less(data.totalQuantity, Zero) THEN rest
             ELSE Append(rest, PerformanceRow(data))

\* PerformanceRows with line 28 reading "break": the loop ends at the first
\* entry without holdings
RECURSIVE PerformanceRows_StopsAtZero(_)
PerformanceRows_StopsAtZero(map) ==
    IF map = <<>> THEN <<>>
    ELSE LET rest == PerformanceRows_StopsAtZero(SubSeq(map, 1, Len(map) - 1))
             data == map[Len(map)]
         IN  IF \E i \in 1..Len(map) : Leq(map[i].totalQuantity, Zero) THEN rest
             ELSE Append(rest, PerformanceRow(data))

\* the rows of the entries with totalQuantity > 0, in Map order
RECURSIVE PerformanceRows(_)
PerformanceRows(map) ==
    IF map = <<>> THEN <<>>
    ELSE LET rest == PerformanceRows(SubSeq(map, 1, Len(map) - 1))
             data == map[Len(map)]
         IN  IF Leq(data.totalQuantity, Zero) THEN rest
             ELSE Append(rest, PerformanceRow(data))

\* the whole function on a list of its own
calculateAssetPerformance(txs) ==
    LET sorted == SortByDate(txs)
    IN  PerformanceRows(LedgerFold(sorted, Len(sorted)))

(***************************************************************************)
(* calculateProfitAnalysis                                                 *)
(***************************************************************************)
\* ApplyProfitTx whose sell branch also takes the sold coins out of totalBought
ApplyProfitTx_SellReducesBought(map, tx) ==
    LET asset == IF MapHas(map, tx.asset) THEN MapGet(map, tx.asset)
                 ELSE [symbol |-> tx.asset, totalBought |-> Zero, totalSold |-> Zero,
                       remainingQuantity |-> Zero, averageBuyPrice |-> Zero,
                       realizedProfit |-> Zero]
        moved ==
            IF tx.type = "buy"
            THEN LET newTotalBought == Add(asset.totalBought, tx.quantity)
                     newAverageBuyPrice ==
                         Div(Add(Mul(asset.averageBuyPrice, asset.totalBought),
                                 Mul(tx.value, tx.quantity)),
                             newTotalBought)
                 IN  [asset EXCEPT !.totalBought = newTotalBought,
                                   !.averageBuyPrice = newAverageBuyPrice]
            ELSE [asset EXCEPT !.totalBought = Sub(@, tx.quantity),
                               !.realizedProfit =
                                   Add(@, Mul(tx.quantity,
                                              Sub(tx.value, asset.averageBuyPrice)))]
    IN  [moved EXCEPT !.remainingQuantity = Sub(moved.totalBought, moved.totalSold)]

\* the body of the forEach callback: the asset's entry after tx
ApplyProfitTx(map, tx) ==
    LET asset == IF MapHas(map, tx.asset) THEN MapGet(map, tx.asset)
                 ELSE [symbol |-> tx.asset, totalBought |-> Zero, totalSold |-> Zero,
                       remainingQuantity |-> Zero, averageBuyPrice |-> Zero,
                       realizedProfit |-> Zero]
        moved ==
            IF tx.type = "buy"
            THEN LET newTotalBought == Add(asset.totalBought, tx.quantity)
                     newAverageBuyPrice ==
                         Div(Add(Mul(asset.averageBuyPrice, asset.totalBought),
                                 Mul(tx.value, tx.quantity)),
                             newTotalBought)
                 IN  [asset EXCEPT !.totalBought = newTotalBought,
                                   !.averageBuyPrice = newAverageBuyPrice]
            ELSE [asset EXCEPT !.totalSold = Add(@, tx.quantity),
                               !.realizedProfit =
                                   Add(@, Mul(tx.quantity,
                                              Sub(tx.value, asset.averageBuyPrice)))]
    IN  [moved EXCEPT !.remainingQuantity = Sub(moved.totalBought, moved.totalSold)]

\* an asset's entry, or the entry a first transaction starts from
ProfitEntry(map, symbol) ==
    IF MapHas(map, symbol) THEN MapGet(map, symbol)
    ELSE [symbol |-> symbol, totalBought |-> Zero, totalSold |-> Zero,
          remainingQuantity |-> Zero, averageBuyPrice |-> Zero,
          realizedProfit |-> Zero]

\* AnalysisRow with line 79 dividing whatever the cost basis
AnalysisRow_UnguardedVariation(data) ==
    LET currentPrice     == PriceOrZero(data.symbol)
        unrealizedProfit == Mul(data.remainingQuantity,
                                Sub(currentPrice, data.averageBuyPrice))
        totalProfit      == Add(data.realizedProfit, unrealizedProfit)
        totalCostBasis   == Mul(data.totalBought, data.averageBuyPrice)
    IN  [symbol |-> data.symbol,
         totalBought |-> data.totalBought,
         totalSold |-> data.totalSold,
         remainingQuantity |-> data.remainingQuantity,
         averageBuyPrice |-> data.averageBuyPrice,
         realizedProfit |-> data.realizedProfit,
         currentPrice |-> currentPrice,
         unrealizedProfit |-> unrealizedProfit,
         totalProfit |-> totalProfit,
         totalVariation |-> Mul(Div(totalProfit, totalCostBasis), Num(100))]

AnalysisRow(data) ==
    LET currentPrice     == PriceOrZero(data.symbol)
        unrealizedProfit == Mul(data.remainingQuantity,
                                Sub(currentPrice, data.averageBuyPrice))
        totalProfit      == Add(data.realizedProfit, unrealizedProfit)
        totalCostBasis   == Mul(data.totalBought, data.averageBuyPrice)
    IN  [symbol |-> data.symbol,
         totalBought |-> data.totalBought,
         totalSold |-> data.totalSold,
         remainingQuantity |-> data.remainingQuantity,
         averageBuyPrice |-> data.averageBuyPrice,
         realizedProfit |-> data.realizedProfit,
         currentPrice |-> currentPrice,
         unrealizedProfit |-> unrealizedProfit,
         totalProfit |-> totalProfit,
         totalVariation |-> IF Pos(totalCostBasis)
                            THEN Mul(Div(totalProfit, totalCostBasis), Num(100))
                            ELSE Zero]

AnalysisRows(map) == [i \in 1..Len(map) |-> AnalysisRow(map[i])]

(***************************************************************************)
(* calculateProfitAnalysisMetrics                                          *)
(***************************************************************************)
\* analysisData.filter(a => a.totalSold > 0)
ClosedPositions(rows) == SelectSeq(rows, LAMBDA a : Pos(a.totalSold))

\* assetsWithClosedPositions.filter(a => a.realizedProfit > 0)
ProfitablePositions(rows) == SelectSeq(rows, LAMBDA a : Pos(a.realizedProfit))

\* WinRate with the profitable positions counted against every asset
WinRate_OverAllAssets(rows) ==
    LET assetsWithClosedPositions == ClosedPositions(rows)
        profitableClosedPositions == ProfitablePositions(assetsWithClosedPositions)
    IN  IF Len(assetsWithClosedPositions) > 0
        THEN Mul(Div(Num(Len(profitableClosedPositions)), Num(Len(rows))), Num(100))
        ELSE Zero

\* lines 103-107
WinRate(rows) ==
    LET assetsWithClosedPositions == ClosedPositions(rows)
        profitableClosedPositions == ProfitablePositions(assetsWithClosedPositions)
    IN  IF Len(assetsWithClosedPositions) > 0
        THEN Mul(Div(Num(Len(profitableClosedPositions)),
                     Num(Len(assetsWithClosedPositions))), Num(100))
        ELSE Zero

\* bestAsset and worstAsset after the first k rows, lines 109-119; null is
\* Undefined
RECURSIVE BestAndWorst(_, _)
BestAndWorst(rows, k) ==
    IF k = 0 THEN [bestAsset |-> Undefined, worstAsset |-> Undefined]
    ELSE LET before == BestAndWorst(rows, k - 1)
             asset  == rows[k]
         IN  [bestAsset |->
                 IF before.bestAsset = Undefined
                    \/ Less(before.bestAsset.totalProfit, asset.totalProfit)
                 THEN asset ELSE before.bestAsset,
              worstAsset |->
                 IF before.worstAsset = Undefined
                    \/ Less(asset.totalProfit, before.worstAsset.totalProfit)
                 THEN asset ELSE before.worstAsset]

calculateProfitAnalysisMetrics(rows) ==
    IF Len(rows) = 0
    THEN [totalAssets |-> 0, winRate |-> Zero,
          bestAsset |-> Undefined, worstAsset |-> Undefined]
    ELSE [totalAssets |-> Len(rows), winRate |-> WinRate(rows),
          bestAsset |-> BestAndWorst(rows, Len(rows)).bestAsset,
          worstAsset |-> BestAndWorst(rows, Len(rows)).worstAsset]

(***************************************************************************)
(* Date fields in local time                                               *)
(***************************************************************************)
IsLeapYear(y) == (y % 4 = 0 /\ y % 100 # 0) \/ y % 400 = 0

DaysInMonth(y, m) ==
    IF m = 2 THEN (IF IsLeapYear(y) THEN 29 ELSE 28)
    ELSE IF m \in {4, 6, 9, 11} THEN 30 ELSE 31

PreviousDay(date) ==
    IF date[3] > 1 THEN <<date[1], date[2], date[3] - 1>>
    ELSE IF date[2] > 1 THEN <<date[1], date[2] - 1, DaysInMonth(date[1], date[2] - 1)>>
    ELSE <<date[1] - 1, 12, 31>>

\* new Date("YYYY-MM-DD") is midnight UTC of that day; behind UTC the local
\* clock still shows the evening of the day before
LocalDate(date, tz) ==
    IF tz = "America/Sao_Paulo" THEN PreviousDay(date) ELSE date

getFullYear(date, tz) == LocalDate(date, tz)[1]
\* 0-11
getMonth(date, tz) == LocalDate(date, tz)[2] - 1

(***************************************************************************)
(* calculateTaxReport                                                      *)
(***************************************************************************)
TAX_EXEMPTION_LIMIT == 35000
\* 0.15
TAX_RATE == <<3, 20>>

\* whether new Date(date) is a valid Date; of an invalid one getTime(),
\* getFullYear() and getMonth() are NaN
Parses(date) == date # EmptyDate

\* [...transactions].filter(...).sort(...); NaN <= year is false
TaxSortedTxs(txs, year, tz) ==
    LET InYears(tx) == Parses(tx.date) /\ getFullYear(tx.date, tz) <= year
    IN  SortByDate(SelectSeq(txs, InYears))

EmptyMonthlyReports(year) ==
    [i \in 1..12 |-> [month |-> i, year |-> year, totalSales |-> Zero,
                      realizedProfit |-> Zero, isExempt |-> TRUE, taxDue |-> Zero]]

BasisEntry(map, symbol) ==
    IF MapHas(map, symbol) THEN MapGet(map, symbol)
    ELSE [symbol |-> symbol, totalQuantity |-> Zero, totalCost |-> Zero]

\* the body of the for loop: cost basis and monthly reports after tx
ApplyTaxTx(st, tx, year, tz) ==
    LET basis   == BasisEntry(st.assetCostBasis, tx.asset)
        txYear  == getFullYear(tx.date, tz)
        txMonth == getMonth(tx.date, tz)
    IN  IF tx.type = "buy"
        THEN [st EXCEPT !.assetCostBasis =
                 MapSet(@, [basis EXCEPT !.totalCost = Add(@, Mul(tx.quantity, tx.value)),
                                         !.totalQuantity = Add(@, tx.quantity)])]
        ELSE LET avgCost    == IF Pos(basis.totalQuantity)
                               THEN Div(basis.totalCost, basis.totalQuantity)
                               ELSE Zero
                 costOfSale == Mul(tx.quantity, avgCost)
                 saleValue  == Mul(tx.quantity, tx.value)
                 profit     == Sub(saleValue, costOfSale)
                 moved      == [basis EXCEPT !.totalCost = Sub(@, costOfSale),
                                             !.totalQuantity = Sub(@, tx.quantity)]
                 clamped    == IF Less(moved.totalQuantity, EPSILON)
                               THEN [moved EXCEPT !.totalQuantity = Zero,
                                                  !.totalCost = Zero]
                               ELSE moved
             IN  [assetCostBasis |-> MapSet(st.assetCostBasis, clamped),
                  monthlyReports |->
                      IF txYear = year
                      THEN [st.monthlyReports EXCEPT
                               ![txMonth + 1].totalSales = Add(@, saleValue),
                               ![txMonth + 1].realizedProfit = Add(@, profit)]
                      ELSE st.monthlyReports]

RECURSIVE TaxFold(_, _, _, _)
TaxFold(sortedTxs, k, year, tz) ==
    IF k = 0
    THEN [assetCostBasis |-> <<>>, monthlyReports |-> EmptyMonthlyReports(year)]
    ELSE ApplyTaxTx(TaxFold(sortedTxs, k - 1, year, tz), sortedTxs[k], year, tz)

\* FinishMonth with the threshold test reading ">="
FinishMonth_ExemptBelowOnly(report) ==
    IF Leq(Num(TAX_EXEMPTION_LIMIT), report.totalSales)
    THEN [report EXCEPT !.isExempt = FALSE,
                        !.taxDue = IF Pos(report.realizedProfit)
                                   THEN Mul(report.realizedProfit, TAX_RATE)
                                   ELSE @]
    ELSE report

\* FinishMonth without the test realizedProfit > 0
FinishMonth_TaxesLosses(report) ==
    IF Less(Num(TAX_EXEMPTION_LIMIT), report.totalSales)
    THEN [report EXCEPT !.isExempt = FALSE,
                        !.taxDue = Mul(report.realizedProfit, TAX_RATE)]
    ELSE report

\* the body of the loop over monthlyReports, lines 485-493, on one report
FinishMonth(report) ==
    IF Less(Num(TAX_EXEMPTION_LIMIT), report.totalSales)
    THEN [report EXCEPT !.isExempt = FALSE,
                        !.taxDue = IF Pos(report.realizedProfit)
                                   THEN Mul(report.realizedProfit, TAX_RATE)
                                   ELSE @]
    ELSE report

\* TaxTotals with taxableMonthsCount++ moved inside "if (realizedProfit > 0)"
RECURSIVE TaxTotals_CountsTaxedOnly(_, _)
TaxTotals_CountsTaxedOnly(reports, k) ==
    IF k = 0
    THEN [totalTaxDue |-> Zero, totalTaxableSales |-> Zero, taxableMonthsCount |-> 0]
    ELSE LET acc    == TaxTotals_CountsTaxedOnly(reports, k - 1)
             report == reports[k]
         IN  IF Less(Num(TAX_EXEMPTION_LIMIT), report.totalSales)
             THEN [totalTaxDue |->
                       IF Pos(report.realizedProfit)
                       THEN Add(acc.totalTaxDue, Mul(report.realizedProfit, TAX_RATE))
                       ELSE acc.totalTaxDue,
                   totalTaxableSales |-> Add(acc.totalTaxableSales, report.totalSales),
                   taxableMonthsCount |->
                       IF Pos(report.realizedProfit)
                       THEN acc.taxableMonthsCount + 1
                       ELSE acc.taxableMonthsCount]
             ELSE acc

\* totalTaxDue, totalTaxableSales and taxableMonthsCount after the first k
\* rounds of the loop over monthlyReports, lines 480-494
RECURSIVE TaxTotals(_, _)
TaxTotals(reports, k) ==
    IF k = 0
    THEN [totalTaxDue |-> Zero, totalTaxableSales |-> Zero, taxableMonthsCount |-> 0]
    ELSE LET acc    == TaxTotals(reports, k - 1)
             report == reports[k]
         IN  IF Less(Num(TAX_EXEMPTION_LIMIT), report.totalSales)
             THEN [totalTaxDue |->
                       IF Pos(report.realizedProfit)
                       THEN Add(acc.totalTaxDue, Mul(report.realizedProfit, TAX_RATE))
                       ELSE acc.totalTaxDue,
                   totalTaxableSales |-> Add(acc.totalTaxableSales, report.totalSales),
                   taxableMonthsCount |-> acc.taxableMonthsCount + 1]
             ELSE acc

calculateTaxReport(txs, year, tz) ==
    LET sortedTxs == TaxSortedTxs(txs, year, tz)
        folded    == TaxFold(sortedTxs, Len(sortedTxs), year, tz)
        totals    == TaxTotals(folded.monthlyReports, 12)
    IN  [year |-> year,
         totalTaxDue |-> totals.totalTaxDue,
         totalTaxableSales |-> totals.totalTaxableSales,
         taxableMonthsCount |-> totals.taxableMonthsCount,
         monthlyReports |-> [i \in 1..12 |-> FinishMonth(folded.monthlyReports[i])]]

(***************************************************************************)
(* calculateHistory                                                        *)
(***************************************************************************)
\* d.setUTCDate(d.getUTCDate() + 1)
NextDay(date) ==
    IF date[3] < DaysInMonth(date[1], date[2]) THEN <<date[1], date[2], date[3] + 1>>
    ELSE IF date[2] < 12 THEN <<date[1], date[2] + 1, 1>>
    ELSE <<date[1] + 1, 1, 1>>

\* cryptoData[symbol]?.price
LivePrice(cd, symbol) ==
    IF symbol \in DOMAIN cd THEN cd[symbol].price ELSE Undefined

\* historicalPrices[symbol]?.[dateStr]
HistoricalPrice(hp, symbol, date) ==
    IF symbol \in DOMAIN hp /\ date \in DOMAIN hp[symbol] THEN hp[symbol][date]
    ELSE Undefined

PortfolioEntry(map, symbol) ==
    IF MapHas(map, symbol) THEN MapGet(map, symbol)
    ELSE [symbol |-> symbol, quantity |-> Zero, invested |-> Zero]

\* the forEach callback of one day, lines 167-186
ApplyHistoryTx(st, tx) ==
    LET asset == PortfolioEntry(st.assetPortfolio, tx.asset)
        moved ==
            IF tx.type = "buy"
            THEN [asset   |-> [asset EXCEPT !.quantity = Add(@, tx.quantity),
                                            !.invested = Add(@, Mul(tx.quantity, tx.value))],
                  removed |-> Neg(Mul(tx.quantity, tx.value))]
            ELSE LET avgCost == IF Pos(asset.quantity)
                                THEN Div(asset.invested, asset.quantity)
                                ELSE Zero
                     costOfSale == Mul(tx.quantity, avgCost)
                     investedToRemove == IF Less(asset.invested, costOfSale)
                                         THEN asset.invested
                                         ELSE costOfSale
                 IN  [asset   |-> [asset EXCEPT !.invested = Sub(@, investedToRemove),
                                                !.quantity = Sub(@, tx.quantity)],
                      removed |-> investedToRemove]
        clamped == IF Less(moved.asset.quantity, EPSILON)
                   THEN [moved.asset EXCEPT !.quantity = Zero, !.invested = Zero]
                   ELSE moved.asset
    IN  [assetPortfolio  |-> MapSet(st.assetPortfolio, clamped),
         currentInvested |-> Sub(st.currentInvested, moved.removed)]

RECURSIVE ApplyHistoryDay(_, _, _)
ApplyHistoryDay(st, dayTxs, k) ==
    IF k = 0 THEN st
    ELSE ApplyHistoryTx(ApplyHistoryDay(st, dayTxs, k - 1), dayTxs[k])

\* MarketValue with nothing added for an asset without a price
RECURSIVE MarketValue_SkipsUnpriced(_, _, _, _, _, _)
MarketValue_SkipsUnpriced(map, k, date, today, hp, cd) ==
    IF k = 0 THEN Zero
    ELSE LET rest == MarketValue_SkipsUnpriced(map, k - 1, date, today, hp, cd)
             data == map[k]
             price == IF date = today THEN LivePrice(cd, data.symbol)
                      ELSE HistoricalPrice(hp, data.symbol, date)
         IN  IF Pos(data.quantity) /\ price # Undefined /\ Pos(price)
             THEN Add(rest, Mul(data.quantity, price))
             ELSE rest

\* currentMarketValue after the first k entries of assetPortfolio, lines 191-213
RECURSIVE MarketValue(_, _, _, _, _, _)
MarketValue(map, k, date, today, hp, cd) ==
    IF k = 0 THEN Zero
    ELSE LET rest == MarketValue(map, k - 1, date, today, hp, cd)
             data == map[k]
             price == IF date = today THEN LivePrice(cd, data.symbol)
                      ELSE HistoricalPrice(hp, data.symbol, date)
         IN  IF ~Pos(data.quantity) THEN rest
             ELSE IF price # Undefined /\ Pos(price)
                  THEN Add(rest, Mul(data.quantity, price))
                  ELSE Add(rest, data.invested)

\* priceForPoint: the last valid price seen, in single-asset mode only
RECURSIVE PriceForPoint(_, _, _, _, _, _, _)
PriceForPoint(map, k, date, today, hp, cd, isSingleAssetMode) ==
    IF k = 0 THEN Undefined
    ELSE LET rest == PriceForPoint(map, k - 1, date, today, hp, cd, isSingleAssetMode)
             data == map[k]
             price == IF date = today THEN LivePrice(cd, data.symbol)
                      ELSE HistoricalPrice(hp, data.symbol, date)
         IN  IF Pos(data.quantity) /\ price # Undefined /\ Pos(price) /\ isSingleAssetMode
             THEN price
             ELSE rest

\* HistoryLoop that stops before today: "d < today"
RECURSIVE HistoryLoop_StopsBeforeToday(_, _, _, _, _, _, _)
HistoryLoop_StopsBeforeToday(d, st, points, sortedTxs, today, hp, cd) ==
    IF getTime(d) >= getTime(today) THEN points
    ELSE LET OfDay(tx) == tx.date = d
             dayTxs == SelectSeq(sortedTxs, OfDay)
             after  == ApplyHistoryDay(st, dayTxs, Len(dayTxs))
             single == Cardinality({sortedTxs[i].asset : i \in 1..Len(sortedTxs)}) = 1
             map    == after.assetPortfolio
             point  == [date |-> d,
                        investedValue |-> after.currentInvested,
                        marketValue |-> MarketValue(map, Len(map), d, today, hp, cd),
                        price |-> PriceForPoint(map, Len(map), d, today, hp, cd, single)]
         IN  HistoryLoop_StopsBeforeToday(NextDay(d), after, Append(points, point),
                                          sortedTxs, today, hp, cd)

\* the for loop over the days from d to today, lines 161-222
RECURSIVE HistoryLoop(_, _, _, _, _, _, _)
HistoryLoop(d, st, points, sortedTxs, today, hp, cd) ==
    IF getTime(d) > getTime(today) THEN points
    ELSE LET OfDay(tx) == tx.date = d
             dayTxs == SelectSeq(sortedTxs, OfDay)
             after  == ApplyHistoryDay(st, dayTxs, Len(dayTxs))
             single == Cardinality({sortedTxs[i].asset : i \in 1..Len(sortedTxs)}) = 1
             map    == after.assetPortfolio
             point  == [date |-> d,
                        investedValue |-> after.currentInvested,
                        marketValue |-> MarketValue(map, Len(map), d, today, hp, cd),
                        price |-> PriceForPoint(map, Len(map), d, today, hp, cd, single)]
         IN  HistoryLoop(NextDay(d), after, Append(points, point),
                         sortedTxs, today, hp, cd)

calculateHistory(txs, hp, cd, today) ==
    IF Len(txs) = 0 THEN <<>>
    ELSE LET sortedTxs == SortByDate(txs)
             firstDate == sortedTxs[1].date
             dayBeforeFirst == PreviousDay(firstDate)
         IN  HistoryLoop(firstDate,
                         [assetPortfolio |-> <<>>, currentInvested |-> Zero],
                         << [date |-> dayBeforeFirst, investedValue |-> Zero,
                             marketValue |-> Zero, price |-> Undefined] >>,
                         sortedTxs, today, hp, cd)

(***************************************************************************)
(* calculateRebalanceSuggestions                                           *)
(***************************************************************************)
\* reduce((sum, asset) => sum + asset.currentValue, 0) over the first k rows
\* that pass the filter
RECURSIVE SumCurrentValue(_, _, _)
SumCurrentValue(rows, k, keep) ==
    IF k = 0 THEN Zero
    ELSE IF rows[k].symbol \in keep
         THEN Add(SumCurrentValue(rows, k - 1, keep), rows[k].currentValue)
         ELSE SumCurrentValue(rows, k - 1, keep)

RowSymbols(rows) == {rows[i].symbol : i \in 1..Len(rows)}

\* performanceData.find(p => p.symbol === symbol), Undefined if there is none
FindRow(rows, symbol) ==
    IF \E i \in 1..Len(rows) : rows[i].symbol = symbol
    THEN rows[CHOOSE i \in 1..Len(rows) :
                  /\ rows[i].symbol = symbol
                  /\ \A j \in 1..(i - 1) : rows[j].symbol # symbol]
    ELSE Undefined

\* targetAllocations[symbol] || 0
TargetPercent(targets, symbol) ==
    IF \E i \in 1..Len(targets) : targets[i].symbol = symbol
    THEN targets[CHOOSE i \in 1..Len(targets) : targets[i].symbol = symbol].percent
    ELSE Zero

\* the sum of the target percentages over every key, anchored or not
RECURSIVE TotalTargetPercent_CountsAnchored(_, _, _)
TotalTargetPercent_CountsAnchored(targets, k, anchored) ==
    IF k = 0 THEN Zero
    ELSE Add(TotalTargetPercent_CountsAnchored(targets, k - 1, anchored), targets[k].percent)

\* totalTargetPercentForRebalance: the sum over the keys that are not anchored
RECURSIVE TotalTargetPercent(_, _, _)
TotalTargetPercent(targets, k, anchored) ==
    IF k = 0 THEN Zero
    ELSE IF targets[k].symbol \in anchored
         THEN TotalTargetPercent(targets, k - 1, anchored)
         ELSE Add(TotalTargetPercent(targets, k - 1, anchored), targets[k].percent)

\* RebalanceableTargetValue without the anchored value taken out
RebalanceableTargetValue_KeepsAnchored(in) ==
    LET rows == in.performanceData
    IN  Add(SumCurrentValue(rows, Len(rows), RowSymbols(rows)), in.capitalChange)

\* currentTotalPortfolioValue + capitalChange - totalAnchoredValue
RebalanceableTargetValue(in) ==
    LET rows == in.performanceData
    IN  Sub(Add(SumCurrentValue(rows, Len(rows), RowSymbols(rows)), in.capitalChange),
            SumCurrentValue(rows, Len(rows), in.anchoredAssets))

\* targetValue of a symbol in the loop over allSymbols, lines 557-564
TargetValue(in, symbol) ==
    LET targets == in.targetAllocations
        total   == TotalTargetPercent(targets, Len(targets), in.anchoredAssets)
    IN  IF Pos(total)
        THEN Mul(RebalanceableTargetValue(in), Div(TargetPercent(targets, symbol), total))
        ELSE Zero

\* Full liquidation without the test of anchoredAssets
RECURSIVE Liquidation_SellsAnchored(_, _, _, _)
Liquidation_SellsAnchored(rows, k, anchored, total) ==
    IF k = 0 THEN <<>>
    ELSE LET rest == Liquidation_SellsAnchored(rows, k - 1, anchored, total)
             p    == rows[k]
         IN  IF Pos(p.currentValue)
             THEN Append(rest,
                         [symbol |-> p.symbol, action |-> "sell",
                          amountBRL |-> p.currentValue, quantity |-> p.totalQuantity,
                          currentValue |-> p.currentValue, targetValue |-> Zero,
                          currentAllocation |-> Mul(Div(p.currentValue, total), Num(100)),
                          targetAllocation |-> Zero])
             ELSE rest

\* the branch rebalanceableTargetValue <= 0, lines 526-537: filter and map
\* over the first k rows
RECURSIVE Liquidation(_, _, _, _)
Liquidation(rows, k, anchored, total) ==
    IF k = 0 THEN <<>>
    ELSE LET rest == Liquidation(rows, k - 1, anchored, total)
             p    == rows[k]
         IN  IF p.symbol \notin anchored /\ Pos(p.currentValue)
             THEN Append(rest,
                         [symbol |-> p.symbol, action |-> "sell",
                          amountBRL |-> p.currentValue, quantity |-> p.totalQuantity,
                          currentValue |-> p.currentValue, targetValue |-> Zero,
                          currentAllocation |-> Mul(Div(p.currentValue, total), Num(100)),
                          targetAllocation |-> Zero])
             ELSE rest

\* Array.from(new Set([...performanceData.map(p => p.symbol),
\*                     ...Object.keys(targetAllocations)]))
RECURSIVE Distinct(_, _)
Distinct(symbols, k) ==
    IF k = 0 THEN <<>>
    ELSE LET rest == Distinct(symbols, k - 1)
         IN  IF \E i \in 1..Len(rest) : rest[i] = symbols[k] THEN rest
             ELSE Append(rest, symbols[k])

AllSymbols(in) ==
    LET listed == [i \in 1..Len(in.performanceData) |-> in.performanceData[i].symbol]
                  \o [i \in 1..Len(in.targetAllocations) |-> in.targetAllocations[i].symbol]
    IN  Distinct(listed, Len(listed))

\* the unit price the loop works with: value per coin of a holding, else the
\* live price, else Undefined
CurrentPrice(asset, cd, symbol) ==
    IF asset # Undefined /\ Pos(asset.totalQuantity)
    THEN Div(asset.currentValue, asset.totalQuantity)
    ELSE LivePrice(cd, symbol)

\* !currentPrice
NoPrice(currentPrice) == currentPrice = Undefined \/ currentPrice = Zero

AbsNum(x) == IF Less(x, Zero) THEN Neg(x) ELSE x

\* SuggestionsFor with amountBRL: differenceBRL
SuggestionsFor_SignedAmount(in, cd, symbol) ==
    LET rows          == in.performanceData
        asset         == FindRow(rows, symbol)
        total         == SumCurrentValue(rows, Len(rows), RowSymbols(rows))
        currentValue  == IF asset # Undefined THEN asset.currentValue ELSE Zero
        targetValue   == TargetValue(in, symbol)
        differenceBRL == Sub(targetValue, currentValue)
        currentPrice  == CurrentPrice(asset, cd, symbol)
    IN  IF symbol \in in.anchoredAssets THEN <<>>
        ELSE IF NoPrice(currentPrice) /\ Pos(differenceBRL) THEN <<>>
        ELSE IF Less(<<1, 100>>, AbsNum(differenceBRL))
             THEN << [symbol |-> symbol,
                      action |-> IF Pos(differenceBRL) THEN "buy" ELSE "sell",
                      amountBRL |-> differenceBRL,
                      quantity |-> IF ~NoPrice(currentPrice) /\ Pos(currentPrice)
                                   THEN AbsNum(Div(differenceBRL, currentPrice))
                                   ELSE Zero,
                      currentValue |-> currentValue,
                      targetValue |-> targetValue,
                      currentAllocation |-> IF Pos(total)
                                            THEN Mul(Div(currentValue, total), Num(100))
                                            ELSE Zero,
                      targetAllocation |-> TargetPercent(in.targetAllocations, symbol)] >>
             ELSE <<>>

\* one round of the loop over allSymbols, lines 547-588: the suggestion
\* pushed for the symbol, if any
SuggestionsFor(in, cd, symbol) ==
    LET rows          == in.performanceData
        asset         == FindRow(rows, symbol)
        total         == SumCurrentValue(rows, Len(rows), RowSymbols(rows))
        currentValue  == IF asset # Undefined THEN asset.currentValue ELSE Zero
        targetValue   == TargetValue(in, symbol)
        differenceBRL == Sub(targetValue, currentValue)
        currentPrice  == CurrentPrice(asset, cd, symbol)
    IN  IF symbol \in in.anchoredAssets THEN <<>>
        ELSE IF NoPrice(currentPrice) /\ Pos(differenceBRL) THEN <<>>
        ELSE IF Less(<<1, 100>>, AbsNum(differenceBRL))
             THEN << [symbol |-> symbol,
                      action |-> IF Pos(differenceBRL) THEN "buy" ELSE "sell",
                      amountBRL |-> AbsNum(differenceBRL),
                      quantity |-> IF ~NoPrice(currentPrice) /\ Pos(currentPrice)
                                   THEN AbsNum(Div(differenceBRL, currentPrice))
                                   ELSE Zero,
                      currentValue |-> currentValue,
                      targetValue |-> targetValue,
                      currentAllocation |-> IF Pos(total)
                                            THEN Mul(Div(currentValue, total), Num(100))
                                            ELSE Zero,
                      targetAllocation |-> TargetPercent(in.targetAllocations, symbol)] >>
             ELSE <<>>

RECURSIVE SuggestionLoop(_, _, _, _)
SuggestionLoop(in, cd, symbols, k) ==
    IF k = 0 THEN <<>>
    ELSE SuggestionLoop(in, cd, symbols, k - 1) \o SuggestionsFor(in, cd, symbols[k])

\* the comparator of the final sort: negative, zero or positive
CompareSuggestions(a, b) ==
    IF a.action = "sell" /\ b.action = "buy" THEN Num(-1)
    ELSE IF a.action = "buy" /\ b.action = "sell" THEN Num(1)
    ELSE Sub(b.amountBRL, a.amountBRL)

\* insert x after every element that does not compare greater (stable)
RECURSIVE InsertSuggestion(_, _)
InsertSuggestion(sorted, x) ==
    IF sorted = <<>> THEN <<x>>
    ELSE IF Pos(CompareSuggestions(sorted[Len(sorted)], x))
         THEN Append(InsertSuggestion(SubSeq(sorted, 1, Len(sorted) - 1), x),
                     sorted[Len(sorted)])
         ELSE Append(sorted, x)

RECURSIVE SortSuggestions(_)
SortSuggestions(list) ==
    IF list = <<>> THEN <<>>
    ELSE InsertSuggestion(SortSuggestions(SubSeq(list, 1, Len(list) - 1)), list[Len(list)])

\* calculateRebalanceSuggestions without the branch for a target total <= 0
calculateRebalanceSuggestions_NormalMathOnly(in, cd) ==
    SortSuggestions(SuggestionLoop(in, cd, AllSymbols(in), Len(AllSymbols(in))))

\* calculateRebalanceSuggestions whose first branch is taken only when
\* nothing at all is left to rebalance
calculateRebalanceSuggestions_LiquidatesOnlyAtZero(in, cd) ==
    LET rows  == in.performanceData
        total == SumCurrentValue(rows, Len(rows), RowSymbols(rows))
    IN  IF RebalanceableTargetValue(in) = Zero
        THEN Liquidation(rows, Len(rows), in.anchoredAssets, total)
        ELSE SortSuggestions(SuggestionLoop(in, cd, AllSymbols(in), Len(AllSymbols(in))))

calculateRebalanceSuggestions(in, cd) ==
    LET rows  == in.performanceData
        total == SumCurrentValue(rows, Len(rows), RowSymbols(rows))
    IN  IF Leq(RebalanceableTargetValue(in), Zero)
        THEN Liquidation(rows, Len(rows), in.anchoredAssets, total)
        ELSE SortSuggestions(SuggestionLoop(in, cd, AllSymbols(in), Len(AllSymbols(in))))

(***************************************************************************)
(* calculateSimulatedPortfolioHistory                                      *)
(***************************************************************************)
\* three consecutive days of the actual history
SimulationDates == << <<2024, 2, 28>>, <<2024, 2, 29>>, <<2024, 3, 1>> >>

\* investedValue of the actual history: nothing, a position, a position a
\* further 0.005 was added to, and a doubled position
CapitalLevels == { Zero, Num(100), <<20001, 200>>, Num(200) }

ActualHistories ==
    { [i \in 1..3 |-> [date |-> SimulationDates[i], investedValue |-> c[i]]] :
        c \in { <<c1, c2, c3>> : c1 \in {Zero, Num(100)},
                                 c2 \in CapitalLevels, c3 \in CapitalLevels } }
    \cup
    { << [date |-> SimulationDates[1], investedValue |-> Num(100)] >> }

\* the target percentages, in the key order of the object
Suggestions ==
    { <<>>,
      << [symbol |-> "BTC", percent |-> Num(100)] >>,
      << [symbol |-> "BTC", percent |-> Num(50)], [symbol |-> "ETH", percent |-> Num(50)] >>,
      << [symbol |-> "BTC", percent |-> Num(20)], [symbol |-> "ETH", percent |-> Num(80)] >> }

\* the days of a series that carry a close
Fetched(series) ==
    [d \in {SimulationDates[i] : i \in {j \in 1..3 : series[j] # Undefined}} |->
        series[CHOOSE i \in 1..3 : SimulationDates[i] = d]]

\* daily closes with gaps
SparsePrices ==
    { [s \in {"BTC", "ETH"} |-> IF s = "BTC" THEN Fetched(b) ELSE Fetched(e)] :
        b \in { <<b1, b2, b3>> : b1 \in {Undefined, Num(100)},
                                 b2 \in {Undefined, Num(100), Num(200)},
                                 b3 \in {Undefined, Num(100), Num(200)} },
        e \in { <<e1, e2, e3>> : e1 \in {Undefined, Num(50)},
                                 e2 \in {Undefined, Num(50)},
                                 e3 \in {Undefined, Num(50)} } }

SimulationInputs ==
    { [actualHistory |-> h, suggestion |-> s, historicalPrices |-> p] :
        h \in ActualHistories, s \in Suggestions, p \in SparsePrices }

\* prices[symbol]?.[date] ?? null
getPrice(prices, symbol, date) == HistoricalPrice(prices, symbol, date)

SuggestionSymbols(suggestion) == { suggestion[k].symbol : k \in 1..Len(suggestion) }

\* suggestion[symbol]
SuggestionPercent(suggestion, symbol) ==
    suggestion[CHOOSE k \in 1..Len(suggestion) : suggestion[k].symbol = symbol].percent

\* actualHistory.findIndex(p => p.investedValue > 0), counted from 1; 0 for -1
firstInvestmentIndex(actualHistory) ==
    LET found == { i \in 1..Len(actualHistory) : Pos(actualHistory[i].investedValue) }
    IN  IF found = {} THEN 0
        ELSE CHOOSE i \in found : \A j \in found : i <= j

\* value * (suggestion[symbol] / 100) / price
SharesFor(value, suggestion, symbol, price) ==
    Div(Mul(value, Div(SuggestionPercent(suggestion, symbol), Num(100))), price)

\* the locals after the loop of lines 622-631 and the push of line 633.
\* simulatedQuantities and lastKnownPrices are objects keyed by symbol; their
\* key order is that of suggestion and only fixes the order of the sums
SimulationFirstDay(in) ==
    LET first      == firstInvestmentIndex(in.actualHistory)
        firstPoint == in.actualHistory[first]
        symbols    == SuggestionSymbols(in.suggestion)
        priced     == { s \in symbols :
                          LET price == getPrice(in.historicalPrices, s, firstPoint.date)
                          IN  price # Undefined /\ Pos(price) }
    IN  [i |-> first + 1,
         simulatedQuantities |->
            [s \in symbols |->
                IF s \in priced
                THEN SharesFor(firstPoint.investedValue, in.suggestion, s,
                               getPrice(in.historicalPrices, s, firstPoint.date))
                ELSE Zero],
         lastKnownPrices |->
            [s \in priced |-> getPrice(in.historicalPrices, s, firstPoint.date)],
         simulatedHistory |->
            << [date |-> firstPoint.date, marketValue |-> firstPoint.investedValue] >>]

\* the loop of lines 642-650 over the first k keys
RECURSIVE Appreciate(_, _, _, _, _)
Appreciate(in, date, quantities, lastKnown, k) ==
    IF k = 0 THEN [appreciatedValue |-> Zero, lastKnownPrices |-> lastKnown]
    ELSE LET before == Appreciate(in, date, quantities, lastKnown, k - 1)
             symbol == in.suggestion[k].symbol
             price  == getPrice(in.historicalPrices, symbol, date)
         IN  IF price # Undefined /\ Pos(price)
             THEN [appreciatedValue |->
                      Add(before.appreciatedValue, Mul(quantities[symbol], price)),
                   lastKnownPrices |-> (symbol :> price) @@ before.lastKnownPrices]
             ELSE IF symbol \in DOMAIN before.lastKnownPrices
             THEN [before EXCEPT !.appreciatedValue =
                      Add(@, Mul(quantities[symbol], before.lastKnownPrices[symbol]))]
             ELSE before

\* CapitalChanged with the threshold dropped
CapitalChanged_AnyChange(capitalChange) == capitalChange # Zero

\* Math.abs(capitalChange) > 0.01, line 656
CapitalChanged(capitalChange) == Less(<<1, 100>>, AbsNum(capitalChange))

\* newSimulatedQuantities, lines 660-670
Rebought(in, date, quantities, lastKnown, valueToRebalance) ==
    [s \in SuggestionSymbols(in.suggestion) |->
        LET today          == getPrice(in.historicalPrices, s, date)
            rebalancePrice == IF today # Undefined THEN today
                              ELSE IF s \in DOMAIN lastKnown THEN lastKnown[s]
                              ELSE Undefined
        IN  IF rebalancePrice # Undefined /\ Pos(rebalancePrice)
            THEN SharesFor(valueToRebalance, in.suggestion, s, rebalancePrice)
            ELSE quantities[s]]

\* one iteration of the loop of lines 636-675
SimulateDay(in, sim) ==
    LET point            == in.actualHistory[sim.i]
        prevPoint        == in.actualHistory[sim.i - 1]
        appreciated      == Appreciate(in, point.date, sim.simulatedQuantities,
                                       sim.lastKnownPrices, Len(in.suggestion))
        capitalChange    == Sub(point.investedValue, prevPoint.investedValue)
        valueToRebalance == Add(appreciated.appreciatedValue, capitalChange)
        changed          == CapitalChanged(capitalChange)
        currentMarketValue ==
            IF changed THEN valueToRebalance ELSE appreciated.appreciatedValue
    IN  [i |-> sim.i + 1,
         simulatedQuantities |->
            IF changed
            THEN Rebought(in, point.date, sim.simulatedQuantities,
                          appreciated.lastKnownPrices, valueToRebalance)
            ELSE sim.simulatedQuantities,
         lastKnownPrices |-> appreciated.lastKnownPrices,
         simulatedHistory |->
            Append(sim.simulatedHistory,
                   [date |-> point.date, marketValue |-> currentMarketValue])]

\* the early returns of lines 607-609 and 616
ReturnsEmpty(in) ==
    \/ Len(in.actualHistory) < 2
    \/ Len(in.suggestion) = 0
    \/ firstInvestmentIndex(in.actualHistory) = 0

(***************************************************************************)
(* Actions                                                                 *)
(***************************************************************************)
InitState ==
    /\ accountTransactions = <<>>
    /\ activeTransactions = <<>>
    /\ pc = "idle"
    /\ idx = 0
    /\ assetMap = <<>>
    /\ performanceData = <<>>
    /\ profitMap = <<>>
    /\ analysisData = <<>>
    /\ taxReport = <<>>
    /\ historyPoints = <<>>
    /\ rebalanceInput = <<>>
    /\ suggestions = <<>>
    /\ simulationInput = <<>>
    /\ simulation = <<>>
    /\ metrics = <<>>
    /\ rebalancePlan = [lockedAllocations |-> <<>>, anchoredAssets |-> <<>>]
    /\ alerts = <<>>
    /\ liveQuote = <<>>
    /\ toasts = <<>>

Init == InitState /\ timeZone = "UTC"

\* NewId counting the rows instead of taking the largest id
NewId_CountsRows(txs) == Len(txs) + 1

\* Math.max(...ids) + 1, or 1 for an empty account
NewId(txs) ==
    IF txs = <<>> THEN 1
    ELSE (CHOOSE m \in {txs[i].id : i \in 1..Len(txs)} :
              \A i \in 1..Len(txs) : txs[i].id <= m) + 1

\* handleAddTransaction with one account selected and an API key set (its two
\* early returns are not taken), and the recomputation of the
\* activeTransactions memo (flatMap builds a fresh array) that the state
\* change triggers
AddTransaction(inputs) ==
    /\ pc = "idle"
    /\ Len(accountTransactions) < MaxTx
    /\ \E tx \in inputs :
          accountTransactions' =
              Append(accountTransactions,
                     [id |-> NewId(accountTransactions)] @@ tx)
    /\ activeTransactions' = accountTransactions'
    /\ pc' = "render"
    /\ UNCHANGED <<idx, assetMap, performanceData, profitMap, analysisData,
                   timeZone, taxReport,
                   historyPoints, rebalanceInput, suggestions,
                   simulationInput, simulation, metrics,
                   rebalancePlan, alerts, liveQuote, toasts>>

\* calculateAssetPerformance, line 8: transactions.sort(...) on the array it was given
PerfSort ==
    /\ pc = "render"
    /\ activeTransactions' = SortByDate(activeTransactions)
    /\ assetMap' = <<>>
    /\ idx' = 1
    /\ pc' = "perfFold"
    /\ UNCHANGED <<accountTransactions, performanceData, profitMap, analysisData,
                   timeZone, taxReport,
                   historyPoints, rebalanceInput, suggestions,
                   simulationInput, simulation, metrics,
                   rebalancePlan, alerts, liveQuote, toasts>>

\* one call of the forEach callback
PerfStep ==
    /\ pc = "perfFold"
    /\ idx <= Len(activeTransactions)
    /\ assetMap' = MapSet(assetMap, ApplyLedgerTx(assetMap, activeTransactions[idx]))
    /\ idx' = idx + 1
    /\ UNCHANGED <<accountTransactions, activeTransactions, pc, performanceData,
                   profitMap, analysisData, timeZone, taxReport,
                   historyPoints, rebalanceInput, suggestions,
                   simulationInput, simulation, metrics,
                   rebalancePlan, alerts, liveQuote, toasts>>

\* the loop over assetMap.entries() and the return
PerfEmit ==
    /\ pc = "perfFold"
    /\ idx > Len(activeTransactions)
    /\ performanceData' = PerformanceRows(assetMap)
    /\ pc' = "profitCall"
    /\ UNCHANGED <<accountTransactions, activeTransactions, idx, assetMap,
                   profitMap, analysisData, timeZone, taxReport,
                   historyPoints, rebalanceInput, suggestions,
                   simulationInput, simulation, metrics,
                   rebalancePlan, alerts, liveQuote, toasts>>

\* calculateProfitAnalysis, line 49: transactions.sort(...) on the same array
ProfitSort ==
    /\ pc = "profitCall"
    /\ activeTransactions' = SortByDate(activeTransactions)
    /\ profitMap' = <<>>
    /\ idx' = 1
    /\ pc' = "profitFold"
    /\ UNCHANGED <<accountTransactions, assetMap, performanceData, analysisData,
                   timeZone, taxReport,
                   historyPoints, rebalanceInput, suggestions,
                   simulationInput, simulation, metrics,
                   rebalancePlan, alerts, liveQuote, toasts>>

\* one call of the forEach callback
ProfitStep ==
    /\ pc = "profitFold"
    /\ idx <= Len(activeTransactions)
    /\ profitMap' = MapSet(profitMap, ApplyProfitTx(profitMap, activeTransactions[idx]))
    /\ idx' = idx + 1
    /\ UNCHANGED <<accountTransactions, activeTransactions, pc, assetMap,
                   performanceData, analysisData, timeZone, taxReport,
                   historyPoints, rebalanceInput, suggestions,
                   simulationInput, simulation, metrics,
                   rebalancePlan, alerts, liveQuote, toasts>>

\* the loop over profitMap.entries() and the return
ProfitEmit ==
    /\ pc = "profitFold"
    /\ idx > Len(activeTransactions)
    /\ analysisData' = AnalysisRows(profitMap)
    /\ pc' = "idle"
    /\ UNCHANGED <<accountTransactions, activeTransactions, idx, assetMap,
                   performanceData, profitMap, timeZone, taxReport,
                   historyPoints, rebalanceInput, suggestions,
                   simulationInput, simulation, metrics,
                   rebalancePlan, alerts, liveQuote, toasts>>

Next ==
    \/ AddTransaction(LedgerInputs)
    \/ PerfSort
    \/ PerfStep
    \/ PerfEmit
    \/ ProfitSort
    \/ ProfitStep
    \/ ProfitEmit

Spec == Init /\ [][Next]_vars

\* the tax section in view, in either time zone
TaxInit == InitState /\ timeZone \in TimeZones

\* TaxSection's useMemo: calculateTaxReport(transactions, selectedYear)
TaxReportCall ==
    /\ pc = "render"
    /\ \E selectedYear \in SelectedYears :
          taxReport' = calculateTaxReport(activeTransactions, selectedYear, timeZone)
    /\ pc' = "idle"
    /\ UNCHANGED <<accountTransactions, activeTransactions, idx, assetMap,
                   performanceData, profitMap, analysisData, timeZone,
                   historyPoints, rebalanceInput, suggestions,
                   simulationInput, simulation, metrics,
                   rebalancePlan, alerts, liveQuote, toasts>>

TaxNext ==
    \/ AddTransaction(TaxInputs)
    \/ TaxReportCall

TaxSpec == TaxInit /\ [][TaxNext]_vars

\* the useMemo of portfolioHistoryForAI:
\* calculatePortfolioHistory(activeTransactions, historicalPrices, cryptoData)
HistoryCall ==
    /\ pc = "render"
    /\ historyPoints' = calculateHistory(activeTransactions, historicalPrices,
                                         cryptoData, Today)
    /\ pc' = "idle"
    /\ UNCHANGED <<accountTransactions, activeTransactions, idx, assetMap,
                   performanceData, profitMap, analysisData, timeZone, taxReport,
                   rebalanceInput, suggestions,
                   simulationInput, simulation, metrics,
                   rebalancePlan, alerts, liveQuote, toasts>>

HistoryNext ==
    \/ AddTransaction(HistoryInputs)
    \/ HistoryCall

HistorySpec == Init /\ [][HistoryNext]_vars

\* the rebalance section opened on some holdings, targets, anchors and
\* capital change
RebalanceInit ==
    /\ accountTransactions = <<>>
    /\ activeTransactions = <<>>
    /\ pc = "render"
    /\ idx = 0
    /\ assetMap = <<>>
    /\ performanceData = <<>>
    /\ profitMap = <<>>
    /\ analysisData = <<>>
    /\ timeZone = "UTC"
    /\ taxReport = <<>>
    /\ historyPoints = <<>>
    /\ rebalanceInput \in RebalanceInputs
    /\ suggestions = <<>>
    /\ simulationInput = <<>>
    /\ simulation = <<>>
    /\ metrics = <<>>
    /\ rebalancePlan = [lockedAllocations |-> <<>>, anchoredAssets |-> <<>>]
    /\ alerts = <<>>
    /\ liveQuote = <<>>
    /\ toasts = <<>>

\* the useMemo of suggestions: calculateRebalanceSuggestions(fullPerformanceData,
\* targetAllocations, cryptoData, parsedCapitalChange, anchoredAssets)
SuggestionsCall ==
    /\ pc = "render"
    /\ suggestions' = calculateRebalanceSuggestions(rebalanceInput, rebalanceQuotes)
    /\ pc' = "idle"
    /\ UNCHANGED <<accountTransactions, activeTransactions, idx, assetMap,
                   performanceData, profitMap, analysisData, timeZone, taxReport,
                   historyPoints, rebalanceInput,
                   simulationInput, simulation, metrics,
                   rebalancePlan, alerts, liveQuote, toasts>>

RebalanceNext == SuggestionsCall

RebalanceSpec == RebalanceInit /\ [][RebalanceNext]_vars

\* the same section fed by a form whose date field may be empty
TaxDateNext ==
    \/ AddTransaction(TaxDateInputs)
    \/ TaxReportCall

TaxDateSpec == TaxInit /\ [][TaxDateNext]_vars

\* the simulator section holding an actual history, a suggestion and the closes
SimulationInit ==
    /\ accountTransactions = <<>>
    /\ activeTransactions = <<>>
    /\ pc = "render"
    /\ idx = 0
    /\ assetMap = <<>>
    /\ performanceData = <<>>
    /\ profitMap = <<>>
    /\ analysisData = <<>>
    /\ timeZone = "UTC"
    /\ taxReport = <<>>
    /\ historyPoints = <<>>
    /\ rebalanceInput = <<>>
    /\ suggestions = <<>>
    /\ simulationInput \in SimulationInputs
    /\ simulation = <<>>
    /\ metrics = <<>>
    /\ rebalancePlan = [lockedAllocations |-> <<>>, anchoredAssets |-> <<>>]
    /\ alerts = <<>>
    /\ liveQuote = <<>>
    /\ toasts = <<>>

\* calculateSimulatedPortfolioHistory up to its loop: lines 607-633
SimulationStart ==
    /\ pc = "render"
    /\ IF ReturnsEmpty(simulationInput)
       THEN /\ simulation' = [i |-> 0, simulatedQuantities |-> <<>>,
                              lastKnownPrices |-> <<>>, simulatedHistory |-> <<>>]
            /\ pc' = "idle"
       ELSE /\ simulation' = SimulationFirstDay(simulationInput)
            /\ pc' = "simulate"
    /\ UNCHANGED <<accountTransactions, activeTransactions, idx, assetMap,
                   performanceData, profitMap, analysisData, timeZone, taxReport,
                   historyPoints, rebalanceInput, suggestions, simulationInput,
                   metrics, rebalancePlan, alerts, liveQuote, toasts>>

\* one day of the loop
SimulationDay ==
    /\ pc = "simulate"
    /\ simulation.i <= Len(simulationInput.actualHistory)
    /\ simulation' = SimulateDay(simulationInput, simulation)
    /\ UNCHANGED <<accountTransactions, activeTransactions, pc, idx, assetMap,
                   performanceData, profitMap, analysisData, timeZone, taxReport,
                   historyPoints, rebalanceInput, suggestions, simulationInput,
                   metrics, rebalancePlan, alerts, liveQuote, toasts>>

\* return simulatedHistory
SimulationReturn ==
    /\ pc = "simulate"
    /\ simulation.i > Len(simulationInput.actualHistory)
    /\ pc' = "idle"
    /\ UNCHANGED <<accountTransactions, activeTransactions, idx, assetMap,
                   performanceData, profitMap, analysisData, timeZone, taxReport,
                   historyPoints, rebalanceInput, suggestions, simulationInput,
                   simulation, metrics, rebalancePlan, alerts, liveQuote, toasts>>

SimulationNext ==
    \/ SimulationStart
    \/ SimulationDay
    \/ SimulationReturn

SimulationSpec == SimulationInit /\ [][SimulationNext]_vars

\* the rows of combinedDataMap: performanceData, then a zero row for every
\* key of targetAllocations that has none
RECURSIVE CombinedData(_, _, _)
CombinedData(rows, targets, k) ==
    IF k = 0 THEN rows
    ELSE LET before == CombinedData(rows, targets, k - 1)
             symbol == targets[k].symbol
         IN  IF MapHas(before, symbol) THEN before
             ELSE Append(before,
                         [symbol |-> symbol, totalQuantity |-> Zero,
                          totalInvested |-> Zero, currentValue |-> Zero,
                          profitLoss |-> Zero, variation |-> Zero])

\* the body of the suggestions memo of the rebalance section
PlanSuggestions(rows, plan) ==
    IF Len(plan.targetAllocations) = 0 THEN <<>>
    ELSE calculateRebalanceSuggestions(
             [plan EXCEPT !.performanceData =
                 CombinedData(rows, plan.targetAllocations, Len(plan.targetAllocations))],
             cryptoData)

\* every memo that depends on the ledger has been recomputed
RenderDone ==
    /\ pc = "idle"
    /\ metrics = calculateProfitAnalysisMetrics(analysisData)
    /\ rebalanceInput.performanceData = performanceData
    /\ suggestions = PlanSuggestions(performanceData, rebalanceInput)

\* the dashboard with a rebalance plan in place and no transaction yet
DashboardInit ==
    /\ accountTransactions = <<>>
    /\ activeTransactions = <<>>
    /\ pc = "idle"
    /\ idx = 0
    /\ assetMap = <<>>
    /\ performanceData = <<>>
    /\ profitMap = <<>>
    /\ analysisData = <<>>
    /\ timeZone = "UTC"
    /\ taxReport = <<>>
    /\ historyPoints = <<>>
    /\ rebalanceInput \in PlanChoices
    /\ suggestions = <<>>
    /\ simulationInput = <<>>
    /\ simulation = <<>>
    /\ metrics = <<>>
    /\ rebalancePlan = [lockedAllocations |-> <<>>, anchoredAssets |-> <<>>]
    /\ alerts = <<>>
    /\ liveQuote = <<>>
    /\ toasts = <<>>

\* the metrics memo of the profit analysis section, recomputed when
\* analysisData has changed
MetricsCall ==
    /\ pc = "idle"
    /\ metrics # calculateProfitAnalysisMetrics(analysisData)
    /\ metrics' = calculateProfitAnalysisMetrics(analysisData)
    /\ UNCHANGED <<accountTransactions, activeTransactions, pc, idx, assetMap,
                   performanceData, profitMap, analysisData, timeZone, taxReport,
                   historyPoints, rebalanceInput, suggestions, simulationInput,
                   simulation, rebalancePlan, alerts, liveQuote, toasts>>

\* the suggestions memo of the rebalance section, recomputed when
\* performanceData has changed
PlanSuggestionsCall ==
    /\ pc = "idle"
    /\ \/ rebalanceInput.performanceData # performanceData
       \/ suggestions # PlanSuggestions(performanceData, rebalanceInput)
    /\ rebalanceInput' = [rebalanceInput EXCEPT !.performanceData = performanceData]
    /\ suggestions' = PlanSuggestions(performanceData, rebalanceInput)
    /\ UNCHANGED <<accountTransactions, activeTransactions, pc, idx, assetMap,
                   performanceData, profitMap, analysisData, timeZone, taxReport,
                   historyPoints, simulationInput, simulation, metrics,
                   rebalancePlan, alerts, liveQuote, toasts>>

\* a render runs to its end before the next event is handled
DashboardAdd == RenderDone /\ AddTransaction(DashboardInputs)

DashboardNext ==
    \/ DashboardAdd
    \/ PerfSort
    \/ PerfStep
    \/ PerfEmit
    \/ ProfitSort
    \/ ProfitStep
    \/ ProfitEmit
    \/ MetricsCall
    \/ PlanSuggestionsCall

DashboardSpec == DashboardInit /\ [][DashboardNext]_vars

\* Math.max(...acc.transactions.map(t => t.id)), or 0 for an empty account
maxId(txs) ==
    IF txs = <<>> THEN 0
    ELSE CHOOSE m \in {txs[i].id : i \in 1..Len(txs)} :
             \A i \in 1..Len(txs) : txs[i].id <= m

\* the rows of a file: every sequence of one to MaxImport inputs
ImportFiles ==
    UNION { [1..n -> AccountInputs] : n \in 1..MaxImport }

\* handleAddTransaction while the ids are below IdLimit
AccountAdd ==
    /\ maxId(accountTransactions) < IdLimit
    /\ AddTransaction(AccountInputs)

\* handleImportTransactions with one account selected
ImportTransactions ==
    /\ pc = "idle"
    /\ \E importedTxs \in ImportFiles :
          /\ Len(accountTransactions) + Len(importedTxs) <= MaxTx
          /\ maxId(accountTransactions) + Len(importedTxs) <= IdLimit
          /\ accountTransactions' =
                accountTransactions \o
                    [index \in 1..Len(importedTxs) |->
                        [id |-> maxId(accountTransactions) + (index - 1) + 1]
                            @@ importedTxs[index]]
    /\ activeTransactions' = accountTransactions'
    /\ pc' = "render"
    /\ UNCHANGED <<idx, assetMap, performanceData, profitMap, analysisData,
                   timeZone, taxReport, historyPoints, rebalanceInput, suggestions,
                   simulationInput, simulation, metrics,
                   rebalancePlan, alerts, liveQuote, toasts>>

\* handleUpdateTransaction: the edit form hands back the transaction under its id
UpdateTransaction ==
    /\ pc = "idle"
    /\ \E i \in 1..Len(accountTransactions), tx \in AccountInputs :
          LET updatedTx == [id |-> accountTransactions[i].id] @@ tx
          IN  /\ updatedTx # accountTransactions[i]
              /\ accountTransactions' =
                    [j \in 1..Len(accountTransactions) |->
                        IF accountTransactions[j].id = updatedTx.id
                        THEN updatedTx ELSE accountTransactions[j]]
    /\ activeTransactions' = accountTransactions'
    /\ pc' = "render"
    /\ UNCHANGED <<idx, assetMap, performanceData, profitMap, analysisData,
                   timeZone, taxReport, historyPoints, rebalanceInput, suggestions,
                   simulationInput, simulation, metrics,
                   rebalancePlan, alerts, liveQuote, toasts>>

\* handleDeleteTransaction
DeleteTransaction ==
    /\ pc = "idle"
    /\ \E i \in 1..Len(accountTransactions) :
          accountTransactions' =
              SelectSeq(accountTransactions,
                        LAMBDA tx : tx.id # accountTransactions[i].id)
    /\ activeTransactions' = accountTransactions'
    /\ pc' = "render"
    /\ UNCHANGED <<idx, assetMap, performanceData, profitMap, analysisData,
                   timeZone, taxReport, historyPoints, rebalanceInput, suggestions,
                   simulationInput, simulation, metrics,
                   rebalancePlan, alerts, liveQuote, toasts>>

AccountNext ==
    \/ AccountAdd
    \/ ImportTransactions
    \/ UpdateTransaction
    \/ DeleteTransaction
    \/ PerfSort
    \/ PerfStep
    \/ PerfEmit
    \/ ProfitSort
    \/ ProfitStep
    \/ ProfitEmit

AccountSpec == Init /\ [][AccountNext]_vars

\* the history of an account whose transactions are all dated up to today
ReconcileNext ==
    \/ AddTransaction(ReconcileInputs)
    \/ HistoryCall

ReconcileSpec == Init /\ [][ReconcileNext]_vars

\* the symbols listed in the rebalance plan
PlanSymbols == {"ADA", "BTC", "ETH", "SHIB"}

\* obj[symbol] read as a condition: an absent key is falsy
Flag(obj, symbol) == symbol \in DOMAIN obj /\ obj[symbol]

\* {...prev, [symbol]: value}
WithKey(prev, symbol, value) == (symbol :> value) @@ prev

\* ToggledLock without the update of anchoredAssets
ToggledLock_KeepsAnchor(plan, symbol) ==
    [plan EXCEPT !.lockedAllocations = WithKey(@, symbol, ~Flag(@, symbol))]

\* the plan after the two updaters queued by handleToggleLock
ToggledLock(plan, symbol) ==
    LET unanchored == [plan EXCEPT !.anchoredAssets = WithKey(@, symbol, FALSE)]
    IN  [unanchored EXCEPT !.lockedAllocations = WithKey(@, symbol, ~Flag(@, symbol))]

\* the plan after the two updaters queued by handleToggleAnchor
ToggledAnchor(plan, symbol) ==
    LET unlocked == [plan EXCEPT !.lockedAllocations = WithKey(@, symbol, FALSE)]
    IN  [unlocked EXCEPT !.anchoredAssets = WithKey(@, symbol, ~Flag(@, symbol))]

handleToggleLock ==
    /\ \E symbol \in PlanSymbols : rebalancePlan' = ToggledLock(rebalancePlan, symbol)
    /\ UNCHANGED <<accountTransactions, activeTransactions, pc, idx, assetMap,
                   performanceData, profitMap, analysisData, timeZone, taxReport,
                   historyPoints, rebalanceInput, suggestions, simulationInput,
                   simulation, metrics, alerts, liveQuote, toasts>>

handleToggleAnchor ==
    /\ \E symbol \in PlanSymbols : rebalancePlan' = ToggledAnchor(rebalancePlan, symbol)
    /\ UNCHANGED <<accountTransactions, activeTransactions, pc, idx, assetMap,
                   performanceData, profitMap, analysisData, timeZone, taxReport,
                   historyPoints, rebalanceInput, suggestions, simulationInput,
                   simulation, metrics, alerts, liveQuote, toasts>>

\* lockedAllocations: {}, anchoredAssets: {}
handleResetRebalancePlan ==
    /\ rebalancePlan' = [lockedAllocations |-> <<>>, anchoredAssets |-> <<>>]
    /\ UNCHANGED <<accountTransactions, activeTransactions, pc, idx, assetMap,
                   performanceData, profitMap, analysisData, timeZone, taxReport,
                   historyPoints, rebalanceInput, suggestions, simulationInput,
                   simulation, metrics, alerts, liveQuote, toasts>>

PlanNext ==
    \/ handleToggleLock
    \/ handleToggleAnchor
    \/ handleResetRebalancePlan

PlanSpec == Init /\ [][PlanNext]_vars

\* at most this many alerts are set
MaxAlerts == 2

\* notifications are followed up to this many
MaxToasts == 3

\* the quotes a refresh can bring for BTC
QuotedPrices == { Zero, Num(50), Num(100), Num(150) }

\* what the alert form submits: a price alert on BTC at 100
AlertInputs ==
    { [asset |-> "BTC", type |-> "price", condition |-> c,
       targetValue |-> Num(100), recurring |-> r] :
        c \in {"above", "below"}, r \in BOOLEAN }

\* the test of lines 1000-1004 for an alert of type price
conditionMet(alert, currentValue) ==
    \/ alert.condition = "above" /\ Leq(alert.targetValue, currentValue)
    \/ alert.condition = "below" /\ Leq(currentValue, alert.targetValue)

\* CheckAlert notifying whenever the condition holds
CheckAlert_NotifiesWhileTriggered(alert, cd) ==
    IF alert.triggered /\ ~alert.recurring
    THEN [alert |-> alert, notified |-> FALSE]
    ELSE IF alert.asset \notin DOMAIN cd
    THEN [alert |-> alert, notified |-> FALSE]
    ELSE LET currentValue == cd[alert.asset].price
         IN  IF currentValue = Undefined \/ Leq(currentValue, Zero)
             THEN [alert |-> alert, notified |-> FALSE]
             ELSE IF conditionMet(alert, currentValue)
             THEN [alert |-> [alert EXCEPT !.triggered = TRUE], notified |-> TRUE]
             ELSE IF alert.triggered /\ alert.recurring
             THEN [alert |-> [alert EXCEPT !.triggered = FALSE], notified |-> FALSE]
             ELSE [alert |-> alert, notified |-> FALSE]

\* the callback of alerts.map, lines 971-1030, for a price alert on an asset:
\* the alert it returns and whether it called addToast
CheckAlert(alert, cd) ==
    IF alert.triggered /\ ~alert.recurring
    THEN [alert |-> alert, notified |-> FALSE]
    ELSE IF alert.asset \notin DOMAIN cd
    THEN [alert |-> alert, notified |-> FALSE]
    ELSE LET currentValue == cd[alert.asset].price
         IN  IF currentValue = Undefined \/ Leq(currentValue, Zero)
             THEN [alert |-> alert, notified |-> FALSE]
             ELSE IF conditionMet(alert, currentValue) /\ ~alert.triggered
             THEN [alert |-> [alert EXCEPT !.triggered = TRUE], notified |-> TRUE]
             ELSE IF ~conditionMet(alert, currentValue) /\ alert.triggered
                     /\ alert.recurring
             THEN [alert |-> [alert EXCEPT !.triggered = FALSE], notified |-> FALSE]
             ELSE [alert |-> alert, notified |-> FALSE]

\* the ids passed to addToast by the map over the first k alerts
RECURSIVE Notified(_, _, _)
Notified(list, cd, k) ==
    IF k = 0 THEN <<>>
    ELSE IF CheckAlert(list[k], cd).notified
         THEN Append(Notified(list, cd, k - 1), list[k].id)
         ELSE Notified(list, cd, k - 1)

\* handleAddAlert
handleAddAlert ==
    /\ pc = "idle"
    /\ Len(alerts) < MaxAlerts
    /\ \E alert \in AlertInputs :
          alerts' = Append(alerts, [id |-> Len(alerts) + 1, triggered |-> FALSE] @@ alert)
    /\ pc' = "alertCheck"
    /\ UNCHANGED <<accountTransactions, activeTransactions, idx, assetMap,
                   performanceData, profitMap, analysisData, timeZone, taxReport,
                   historyPoints, rebalanceInput, suggestions, simulationInput,
                   simulation, metrics, rebalancePlan, liveQuote, toasts>>

\* a refresh of the quotes: cryptoData and lastUpdated change
PriceUpdate ==
    /\ pc = "idle"
    /\ Len(toasts) < MaxToasts
    /\ \E price \in QuotedPrices :
          /\ liveQuote # ("BTC" :> [price |-> price])
          /\ liveQuote' = ("BTC" :> [price |-> price])
    /\ pc' = "alertCheck"
    /\ UNCHANGED <<accountTransactions, activeTransactions, idx, assetMap,
                   performanceData, profitMap, analysisData, timeZone, taxReport,
                   historyPoints, rebalanceInput, suggestions, simulationInput,
                   simulation, metrics, rebalancePlan, alerts, toasts>>

\* handleReArmAlert on an alert that is shown as triggered
handleReArmAlert ==
    /\ pc = "idle"
    /\ Len(toasts) < MaxToasts
    /\ \E i \in 1..Len(alerts) :
          /\ alerts[i].triggered
          /\ alerts' = [j \in 1..Len(alerts) |->
                           IF alerts[j].id = alerts[i].id
                           THEN [alerts[j] EXCEPT !.triggered = FALSE]
                           ELSE alerts[j]]
    /\ pc' = "alertCheck"
    /\ UNCHANGED <<accountTransactions, activeTransactions, idx, assetMap,
                   performanceData, profitMap, analysisData, timeZone, taxReport,
                   historyPoints, rebalanceInput, suggestions, simulationInput,
                   simulation, metrics, rebalancePlan, liveQuote, toasts>>

\* the alert effect, lines 962-1039: it runs after cryptoData or alerts have
\* changed, and again after its own setAlerts
AlertEffect ==
    /\ pc = "alertCheck"
    /\ IF liveQuote = <<>> \/ Len(alerts) = 0
       THEN UNCHANGED <<alerts, toasts>> /\ pc' = "idle"
       ELSE LET updatedAlerts ==
                    [i \in 1..Len(alerts) |-> CheckAlert(alerts[i], liveQuote).alert]
            IN  /\ toasts' = toasts \o Notified(alerts, liveQuote, Len(alerts))
                /\ IF updatedAlerts # alerts
                   THEN alerts' = updatedAlerts /\ pc' = "alertCheck"
                   ELSE alerts' = alerts /\ pc' = "idle"
    /\ UNCHANGED <<accountTransactions, activeTransactions, idx, assetMap,
                   performanceData, profitMap, analysisData, timeZone, taxReport,
                   historyPoints, rebalanceInput, suggestions, simulationInput,
                   simulation, metrics, rebalancePlan, liveQuote>>

AlertNext ==
    \/ handleAddAlert
    \/ PriceUpdate
    \/ handleReArmAlert
    \/ AlertEffect

AlertSpec == Init /\ [][AlertNext]_vars

(***************************************************************************)
(* Properties of the Tax Simulator                                         *)
(***************************************************************************)
\* taxReport is the report of the transactions now in the account
TaxReportFresh == pc = "idle" /\ taxReport # <<>>

\* C8: a month is non-exempt exactly when its total sale proceeds are
\* strictly greater than 35000.
C8_ExemptUpToLimit ==
    taxReport # <<>> =>
        \A m \in 1..12 :
            LET report == taxReport.monthlyReports[m]
            IN  ~report.isExempt <=> Less(Num(35000), report.totalSales)

\* one month sold exactly 35000 and is exempt, another sold more and is not
C8_MonthAtLimitAndMonthAbove ==
    /\ taxReport # <<>>
    /\ \E m \in 1..12 :
          /\ taxReport.monthlyReports[m].totalSales = Num(35000)
          /\ taxReport.monthlyReports[m].isExempt
    /\ \E m \in 1..12 :
          /\ Less(Num(35000), taxReport.monthlyReports[m].totalSales)
          /\ ~taxReport.monthlyReports[m].isExempt

\* C9: taxDue is 15% of realizedProfit in a non-exempt month with
\* realizedProfit > 0 and is 0 in every other month; it is never negative.
C9_TaxOnlyOnTaxableGains ==
    taxReport # <<>> =>
        \A m \in 1..12 :
            LET report == taxReport.monthlyReports[m]
            IN  /\ report.taxDue =
                       IF ~report.isExempt /\ Pos(report.realizedProfit)
                       THEN Div(Mul(report.realizedProfit, Num(15)), Num(100))
                       ELSE Zero
                /\ Leq(Zero, report.taxDue)

\* a month above the limit closed with a loss, another with a taxed gain
C9_LossMonthAboveLimit ==
    /\ taxReport # <<>>
    /\ \E m \in 1..12 :
          /\ ~taxReport.monthlyReports[m].isExempt
          /\ Less(taxReport.monthlyReports[m].realizedProfit, Zero)
          /\ taxReport.monthlyReports[m].taxDue = Zero
    /\ \E m \in 1..12 : Pos(taxReport.monthlyReports[m].taxDue)

\* cost basis of every asset after the first k of txs, sells clamped as in
\* the report
RECURSIVE CarriedBasis(_, _)
CarriedBasis(txs, k) ==
    IF k = 0 THEN <<>>
    ELSE ApplyTaxTx([assetCostBasis |-> CarriedBasis(txs, k - 1),
                     monthlyReports |-> EmptyMonthlyReports(0)],
                    txs[k], 0, "UTC").assetCostBasis

AverageCostBefore(txs, k) ==
    LET basis == BasisEntry(CarriedBasis(txs, k - 1), txs[k].asset)
    IN  IF Pos(basis.totalQuantity) THEN Div(basis.totalCost, basis.totalQuantity)
        ELSE Zero

\* the sells among the first k of txs that are dated in month m of year y
RECURSIVE ProceedsOfMonth(_, _, _, _)
ProceedsOfMonth(txs, k, y, m) ==
    IF k = 0 THEN Zero
    ELSE IF txs[k].type = "sell" /\ txs[k].date[1] = y /\ txs[k].date[2] = m
         THEN Add(ProceedsOfMonth(txs, k - 1, y, m), Mul(txs[k].quantity, txs[k].value))
         ELSE ProceedsOfMonth(txs, k - 1, y, m)

RECURSIVE ProfitOfMonth(_, _, _, _)
ProfitOfMonth(txs, k, y, m) ==
    IF k = 0 THEN Zero
    ELSE IF txs[k].type = "sell" /\ txs[k].date[1] = y /\ txs[k].date[2] = m
         THEN Add(ProfitOfMonth(txs, k - 1, y, m),
                  Sub(Mul(txs[k].quantity, txs[k].value),
                      Mul(txs[k].quantity, AverageCostBefore(txs, k))))
         ELSE ProfitOfMonth(txs, k - 1, y, m)

\* C10: in the report of year Y each sell dated in Y counts, in the month of
\* its date, its proceeds and its proceeds minus quantity * the average cost
\* carried from all earlier transactions of the asset; sells of earlier years
\* and transactions of later years add nothing to the monthly totals.
C10_BasisCarriedAcrossYears ==
    TaxReportFresh =>
        LET txs == SortByDate(accountTransactions)
        IN  \A m \in 1..12 :
                /\ taxReport.monthlyReports[m].totalSales =
                       ProceedsOfMonth(txs, Len(txs), taxReport.year, m)
                /\ taxReport.monthlyReports[m].realizedProfit =
                       ProfitOfMonth(txs, Len(txs), taxReport.year, m)

\* C10 where the local date is the date written
C10_HoldsOnUTC == timeZone = "UTC" => C10_BasisCarriedAcrossYears

HasUnparseableDate ==
    \E i \in 1..Len(accountTransactions) : ~Parses(accountTransactions[i].date)

\* C11: a call of the tax report on a list holding a transaction whose date
\* does not parse ends in an error, not in a report.
C11_UnparseableDateIsAnError ==
    (TaxReportFresh /\ HasUnparseableDate) => "error" \in DOMAIN taxReport

\* the transaction without a date is left out and the rest is reported as if
\* it had never been entered
C11_UnparseableDateDropped ==
    (pc = "idle" /\ taxReport # <<>>) =>
        LET Dated(tx) == Parses(tx.date)
        IN  taxReport = calculateTaxReport(SelectSeq(accountTransactions, Dated),
                                           taxReport.year, timeZone)

\* the taxes and taxable proceeds of the months of a report, summed
RECURSIVE SumTaxDue(_, _)
SumTaxDue(reports, k) ==
    IF k = 0 THEN Zero ELSE Add(SumTaxDue(reports, k - 1), reports[k].taxDue)

RECURSIVE SumTaxableSales(_, _)
SumTaxableSales(reports, k) ==
    IF k = 0 THEN Zero
    ELSE IF reports[k].isExempt THEN SumTaxableSales(reports, k - 1)
         ELSE Add(SumTaxableSales(reports, k - 1), reports[k].totalSales)

\* C12: totalTaxDue is the sum of taxDue over the 12 months,
\* totalTaxableSales the sum of totalSales over the non-exempt months, and
\* taxableMonthsCount the number of non-exempt months, those with taxDue 0
\* included.
C12_AnnualTotalsSumMonths ==
    taxReport # <<>> =>
        /\ taxReport.totalTaxDue = SumTaxDue(taxReport.monthlyReports, 12)
        /\ taxReport.totalTaxableSales = SumTaxableSales(taxReport.monthlyReports, 12)
        /\ taxReport.taxableMonthsCount =
               Cardinality({m \in 1..12 : ~taxReport.monthlyReports[m].isExempt})

\* a year with a taxed month and a non-exempt month that owes nothing
C12_TaxedMonthAndUntaxedTaxableMonth ==
    /\ taxReport # <<>>
    /\ \E m \in 1..12 : Pos(taxReport.monthlyReports[m].taxDue)
    /\ \E m \in 1..12 :
          /\ ~taxReport.monthlyReports[m].isExempt
          /\ taxReport.monthlyReports[m].taxDue = Zero
    /\ taxReport.taxableMonthsCount = 2

(***************************************************************************)
(* Properties of the Time-Series Reconstructor                             *)
(***************************************************************************)
\* historyPoints is the history of the transactions now in the account
HistoryFresh == pc = "idle" /\ accountTransactions # <<>>

\* the number of the day in the proleptic Gregorian calendar
RECURSIVE DaysBeforeMonth(_, _)
DaysBeforeMonth(y, m) ==
    IF m = 1 THEN 0 ELSE DaysBeforeMonth(y, m - 1) + DaysInMonth(y, m - 1)

DayNumber(date) ==
    LET y == date[1] - 1
    IN  365 * y + (y \div 4) - (y \div 100) + (y \div 400)
        + DaysBeforeMonth(date[1], date[2]) + date[3]

\* the earliest date among the transactions of the account
EarliestDate ==
    LET dates == {accountTransactions[i].date : i \in 1..Len(accountTransactions)}
    IN  CHOOSE d \in dates : \A e \in dates : DayNumber(d) <= DayNumber(e)

\* the shape of a grid that starts the day before the earliest transaction,
\* advances one day per point and ends today
DailyGridToToday ==
    LET n == Len(historyPoints)
    IN  /\ n >= 1
        /\ DayNumber(historyPoints[1].date) = DayNumber(EarliestDate) - 1
        /\ historyPoints[1].investedValue = Zero
        /\ historyPoints[1].marketValue = Zero
        /\ \A i \in 1..(n - 1) :
               DayNumber(historyPoints[i + 1].date) = DayNumber(historyPoints[i].date) + 1
        /\ historyPoints[n].date = Today
        /\ n = DayNumber(Today) - DayNumber(EarliestDate) + 2

\* C13 as claimed: for every non-empty transaction list the history has one
\* point per day from the day before the earliest transaction through today:
\* the synthetic zero point first, each next point one day later, the last
\* point dated today.
C13_DailyGridForEveryList == HistoryFresh => DailyGridToToday

\* C13 as amended: the grid is as claimed when the earliest transaction is not
\* dated after today; when it is, the history is the synthetic zero point of
\* the day before it and nothing else.
C13_DailyGridFromPastStart ==
    HistoryFresh =>
        IF DayNumber(EarliestDate) <= DayNumber(Today)
        THEN DailyGridToToday
        ELSE /\ Len(historyPoints) = 1
             /\ DayNumber(historyPoints[1].date) = DayNumber(EarliestDate) - 1
             /\ historyPoints[1].investedValue = Zero
             /\ historyPoints[1].marketValue = Zero

\* a history from 27 February over the leap day to today, of a list that
\* also holds a transaction dated after today
C13_GridOverLeapDay ==
    /\ HistoryFresh
    /\ Len(historyPoints) = 4
    /\ historyPoints[3].date = <<2024, 2, 29>>
    /\ \E i \in 1..Len(accountTransactions) :
          DayNumber(accountTransactions[i].date) > DayNumber(Today)

\* the holdings at the end of a day: the average-cost ledger of the
\* transactions dated up to that day
HoldingsOn(date) ==
    LET UpTo(tx) == DayNumber(tx.date) <= DayNumber(date)
        txs == SelectSeq(SortByDate(accountTransactions), UpTo)
    IN  LedgerFold(txs, Len(txs))

\* the price the point of a day is valued at: live for today, the close of
\* that exact date for an earlier day
PriceOn(symbol, date) ==
    IF date = Today
    THEN (IF symbol \in DOMAIN cryptoData THEN cryptoData[symbol].price ELSE Undefined)
    ELSE (IF symbol \in DOMAIN historicalPrices /\ date \in DOMAIN historicalPrices[symbol]
          THEN historicalPrices[symbol][date]
          ELSE Undefined)

\* quantity * price of the assets held, or their cost basis where no price
\* is to be had
RECURSIVE ValueOfHoldings(_, _, _)
ValueOfHoldings(holdings, k, date) ==
    IF k = 0 THEN Zero
    ELSE LET held == holdings[k]
             rest == ValueOfHoldings(holdings, k - 1, date)
         IN  IF ~Pos(held.totalQuantity) THEN rest
             ELSE IF PriceOn(held.symbol, date) # Undefined
                  THEN Add(rest, Mul(held.totalQuantity, PriceOn(held.symbol, date)))
                  ELSE Add(rest, held.totalInvested)

\* C14: on every day of the grid marketValue is the sum over the assets held
\* that day of quantity * price where the asset has a price for the day (the
\* live price today, the close of that exact date before) and of the asset's
\* cost basis where it has none; no day from the first transaction to today is
\* left out.
C14_MarketValueWithCostFallback ==
    HistoryFresh =>
        /\ \A i \in 2..Len(historyPoints) :
               LET holdings == HoldingsOn(historyPoints[i].date)
               IN  historyPoints[i].marketValue =
                       ValueOfHoldings(holdings, Len(holdings), historyPoints[i].date)
        /\ \A n \in DayNumber(EarliestDate)..DayNumber(Today) :
               \E i \in 2..Len(historyPoints) : DayNumber(historyPoints[i].date) = n

\* BTC bought at 100 and ETH at 50 on 28 February: on the 29th BTC has no
\* close and counts 100, today ETH has no live price and counts 50 while BTC
\* counts its live 400 and not the fetched close
C14_FallbackOnLeapDayAndToday ==
    /\ HistoryFresh
    /\ Len(historyPoints) = 4
    /\ historyPoints[2].marketValue = Num(260)
    /\ historyPoints[3].marketValue = Num(170)
    /\ historyPoints[4].marketValue = Num(450)

(***************************************************************************)
(* Properties of the Rebalancer                                            *)
(***************************************************************************)
\* suggestions is the result for rebalanceInput
RebalanceDone == pc = "idle"

\* every symbol the call knows of: held, listed with a zero row, or targeted
KnownSymbols ==
    {rebalanceInput.performanceData[i].symbol : i \in 1..Len(rebalanceInput.performanceData)}
    \cup
    {rebalanceInput.targetAllocations[i].symbol :
        i \in 1..Len(rebalanceInput.targetAllocations)}

Anchored(symbol) == symbol \in rebalanceInput.anchoredAssets

IsHeld(symbol) ==
    \E i \in 1..Len(rebalanceInput.performanceData) :
        /\ rebalanceInput.performanceData[i].symbol = symbol
        /\ Pos(rebalanceInput.performanceData[i].totalQuantity)

RowOf(symbol) ==
    rebalanceInput.performanceData[
        CHOOSE i \in 1..Len(rebalanceInput.performanceData) :
            rebalanceInput.performanceData[i].symbol = symbol]

ValueOf(symbol) ==
    IF \E i \in 1..Len(rebalanceInput.performanceData) :
           rebalanceInput.performanceData[i].symbol = symbol
    THEN RowOf(symbol).currentValue
    ELSE Zero

PercentOf(symbol) ==
    IF \E i \in 1..Len(rebalanceInput.targetAllocations) :
           rebalanceInput.targetAllocations[i].symbol = symbol
    THEN rebalanceInput.targetAllocations[
             CHOOSE i \in 1..Len(rebalanceInput.targetAllocations) :
                 rebalanceInput.targetAllocations[i].symbol = symbol].percent
    ELSE Zero

\* the current values of a set of symbols, summed
RECURSIVE SumOfValues(_)
SumOfValues(symbols) ==
    IF symbols = {} THEN Zero
    ELSE LET s == CHOOSE x \in symbols : TRUE
         IN  Add(ValueOf(s), SumOfValues(symbols \ {s}))

\* the target percentages of a set of symbols, summed
RECURSIVE SumOfPercents(_)
SumOfPercents(symbols) ==
    IF symbols = {} THEN Zero
    ELSE LET s == CHOOSE x \in symbols : TRUE
         IN  Add(PercentOf(s), SumOfPercents(symbols \ {s}))

PortfolioValue == SumOfValues(KnownSymbols)

NonAnchored == {s \in KnownSymbols : ~Anchored(s)}

\* total portfolio value + capitalChange - anchored value
RebalanceableTotal ==
    Sub(Add(PortfolioValue, rebalanceInput.capitalChange),
        SumOfValues(KnownSymbols \ NonAnchored))

\* the symbol's target percentage is its share of the portfolio
TargetIsShare(symbol) ==
    Mul(PercentOf(symbol), PortfolioValue) = Mul(Num(100), ValueOf(symbol))

\* C15 as claimed: if the target percentage of every held asset that is not
\* anchored equals its current share of the portfolio and capitalChange is 0,
\* the list of suggestions is empty, whatever is anchored.
C15_HeldAtTargetNoSuggestions ==
    (/\ RebalanceDone
     /\ rebalanceInput.capitalChange = Zero
     /\ \A s \in NonAnchored : IsHeld(s) => TargetIsShare(s))
    => suggestions = <<>>

\* C15 as amended: if the target percentage of every symbol that is not
\* anchored, held or only named in the target allocation, equals its current
\* share of the portfolio and capitalChange is 0, the list of suggestions is
\* empty, whatever is anchored.
C15_AllAtTargetNoSuggestions ==
    (/\ RebalanceDone
     /\ rebalanceInput.capitalChange = Zero
     /\ \A s \in NonAnchored : TargetIsShare(s))
    => suggestions = <<>>

\* BTC at 80% and ETH at 20% of the portfolio with exactly these targets, and
\* SHIB anchored with a target of its own
C15_AtTargetWithAnAnchor ==
    /\ RebalanceDone
    /\ rebalanceInput.capitalChange = Zero
    /\ \A s \in NonAnchored : TargetIsShare(s)
    /\ {"BTC", "ETH"} \subseteq NonAnchored
    /\ PercentOf("BTC") = Num(80)
    /\ PercentOf("ETH") = Num(20)
    /\ Anchored("SHIB")
    /\ Pos(PercentOf("SHIB"))
    /\ suggestions = <<>>

\* C16: no suggestion names an anchored asset, in the normal branch and in
\* the branch where the rebalanceable target total is <= 0.
C16_AnchoredNeverSuggested ==
    RebalanceDone =>
        \A i \in 1..Len(suggestions) : ~Anchored(suggestions[i].symbol)

\* a withdrawal that empties the rebalanceable part while an anchored asset
\* has value, and a sale is suggested
C16_LiquidationBesideAnAnchor ==
    /\ RebalanceDone
    /\ Leq(RebalanceableTotal, Zero)
    /\ \E s \in KnownSymbols : Anchored(s) /\ Pos(ValueOf(s))
    /\ suggestions # <<>>

\* C17: when the rebalanceable target total is positive and the target
\* percentages of the non-anchored symbols have a positive sum, the
\* targetValue of each non-anchored symbol is the total times the symbol's
\* share of that sum, and the targetValues add up to the total.
C17_TargetValuesSumToTotal ==
    (/\ RebalanceDone
     /\ Pos(RebalanceableTotal)
     /\ Pos(SumOfPercents(NonAnchored)))
    => LET TargetOf(s) == TargetValue(rebalanceInput, s)
           Sum[symbols \in SUBSET NonAnchored] ==
               IF symbols = {} THEN Zero
               ELSE LET s == CHOOSE x \in symbols : TRUE
                    IN  Add(TargetOf(s), Sum[symbols \ {s}])
       IN  /\ \A s \in NonAnchored :
                  Mul(TargetOf(s), SumOfPercents(NonAnchored)) =
                      Mul(RebalanceableTotal, PercentOf(s))
           /\ Sum[NonAnchored] = RebalanceableTotal

\* holdings {ETH: 100, BTC: 0}, target 50/50 and a deposit of 100: both
\* targetValues are 100 and the one suggestion is to buy 100 of BTC
C17_DepositScenario ==
    /\ RebalanceDone
    /\ KnownSymbols = {"BTC", "ETH"}
    /\ rebalanceInput.anchoredAssets = {}
    /\ ValueOf("ETH") = Num(100)
    /\ ValueOf("BTC") = Zero
    /\ PercentOf("ETH") = Num(50)
    /\ PercentOf("BTC") = Num(50)
    /\ rebalanceInput.capitalChange = Num(100)
    /\ TargetValue(rebalanceInput, "ETH") = Num(100)
    /\ TargetValue(rebalanceInput, "BTC") = Num(100)
    /\ Len(suggestions) = 1
    /\ suggestions[1].symbol = "BTC"
    /\ suggestions[1].action = "buy"
    /\ suggestions[1].amountBRL = Num(100)

\* the targetValue the call works with: 0 throughout when everything is
\* liquidated
ClaimedTargetValue(symbol) ==
    IF Leq(RebalanceableTotal, Zero) \/ ~Pos(SumOfPercents(NonAnchored)) THEN Zero
    ELSE Div(Mul(RebalanceableTotal, PercentOf(symbol)), SumOfPercents(NonAnchored))

Difference(symbol) == Sub(ClaimedTargetValue(symbol), ValueOf(symbol))

\* the symbol is off its target by more than 0.01
OffTarget(symbol) ==
    \/ Less(<<1, 100>>, Difference(symbol))
    \/ Less(Difference(symbol), <<-1, 100>>)

\* exactly one suggestion names the symbol, and it is the trade that closes
\* the difference
OneSuggestionClosingDifference(symbol) ==
    /\ Cardinality({i \in 1..Len(suggestions) : suggestions[i].symbol = symbol}) = 1
    /\ \A i \in 1..Len(suggestions) :
          suggestions[i].symbol = symbol =>
              /\ suggestions[i].action = IF Pos(Difference(symbol)) THEN "buy" ELSE "sell"
              /\ suggestions[i].amountBRL =
                     IF Pos(Difference(symbol)) THEN Difference(symbol)
                     ELSE Neg(Difference(symbol))

\* a unit price is to be had: value per coin of a holding, or a live quote
HasUnitPrice(symbol) ==
    IF IsHeld(symbol) THEN Pos(ValueOf(symbol))
    ELSE symbol \in DOMAIN rebalanceQuotes /\ Pos(rebalanceQuotes[symbol].price)

\* C18 as claimed: every non-anchored symbol whose targetValue differs from
\* its currentValue by more than 0.01 gets exactly one suggestion, a buy if
\* targetValue > currentValue and a sell otherwise, of amountBRL
\* |targetValue - currentValue|.
C18_EveryOffTargetSymbolSuggested ==
    RebalanceDone =>
        \A s \in NonAnchored : OffTarget(s) => OneSuggestionClosingDifference(s)

\* C18 as amended: the same, except that a symbol to be bought for which no
\* unit price is to be had gets no suggestion.
C18_OffTargetSuggestedUnlessUnpricedBuy ==
    RebalanceDone =>
        \A s \in NonAnchored :
            OffTarget(s) =>
                IF Pos(Difference(s)) /\ ~HasUnitPrice(s)
                THEN \A i \in 1..Len(suggestions) : suggestions[i].symbol # s
                ELSE OneSuggestionClosingDifference(s)

\* a sale and a purchase are suggested while a third symbol, off its target
\* and unquoted, is passed over
C18_BuySellAndUnpricedSkipped ==
    /\ RebalanceDone
    /\ \E i \in 1..Len(suggestions) : suggestions[i].action = "sell"
    /\ \E i \in 1..Len(suggestions) : suggestions[i].action = "buy"
    /\ \E s \in NonAnchored :
          /\ OffTarget(s)
          /\ Pos(Difference(s))
          /\ ~HasUnitPrice(s)
          /\ \A i \in 1..Len(suggestions) : suggestions[i].symbol # s

\* C19: every returned list, the full-liquidation list included, has all
\* sells before all buys and, among the sells and among the buys, amountBRL
\* never increasing.
C19_SellsFirstThenByAmount ==
    RebalanceDone =>
        \A i, j \in 1..Len(suggestions) :
            i < j =>
                /\ ~(suggestions[i].action = "buy" /\ suggestions[j].action = "sell")
                /\ suggestions[i].action = suggestions[j].action =>
                       Leq(suggestions[j].amountBRL, suggestions[i].amountBRL)

\* C19 outside the full-liquidation branch
C19_OrderedWhenTotalPositive ==
    Pos(RebalanceableTotal) => C19_SellsFirstThenByAmount

\* C20 as claimed: when the rebalanceable target total is <= 0, there is
\* exactly one sell for every held asset that is not anchored, of the asset's
\* whole quantity and with targetValue 0, and there is no buy.
C20_LiquidatesEveryHeldAsset ==
    (RebalanceDone /\ Leq(RebalanceableTotal, Zero)) =>
        /\ \A i \in 1..Len(suggestions) : suggestions[i].action = "sell"
        /\ \A s \in NonAnchored :
              IsHeld(s) =>
                  /\ Cardinality({i \in 1..Len(suggestions) :
                                     suggestions[i].symbol = s}) = 1
                  /\ \A i \in 1..Len(suggestions) :
                        suggestions[i].symbol = s =>
                            /\ suggestions[i].quantity = RowOf(s).totalQuantity
                            /\ suggestions[i].targetValue = Zero

\* C20 as amended: when the rebalanceable target total is <= 0, there is
\* exactly one sell for every asset with a positive current value that is not
\* anchored, of the asset's whole quantity and current value and with
\* targetValue 0; nothing else is suggested.
C20_LiquidatesEveryValuedAsset ==
    (RebalanceDone /\ Leq(RebalanceableTotal, Zero)) =>
        /\ \A i \in 1..Len(suggestions) :
              /\ suggestions[i].action = "sell"
              /\ suggestions[i].symbol \in NonAnchored
              /\ Pos(ValueOf(suggestions[i].symbol))
        /\ \A s \in NonAnchored :
              Pos(ValueOf(s)) =>
                  /\ Cardinality({i \in 1..Len(suggestions) :
                                     suggestions[i].symbol = s}) = 1
                  /\ \A i \in 1..Len(suggestions) :
                        suggestions[i].symbol = s =>
                            /\ suggestions[i].quantity = RowOf(s).totalQuantity
                            /\ suggestions[i].amountBRL = ValueOf(s)
                            /\ suggestions[i].targetValue = Zero

\* a withdrawal of all the rebalanceable value: BTC and ETH are sold whole,
\* the SHIB that is held without a quote is not listed
C20_WithdrawalOfAllValue ==
    /\ RebalanceDone
    /\ Leq(RebalanceableTotal, Zero)
    /\ Pos(SumOfPercents(NonAnchored))
    /\ {"BTC", "ETH", "SHIB"} \subseteq NonAnchored
    /\ IsHeld("SHIB")
    /\ Len(suggestions) = 2

(***************************************************************************)
(* Properties of the Ledger Aggregator                                     *)
(***************************************************************************)
\* performanceData is the result for the transactions now in the account
PerformanceFresh == pc \in {"profitCall", "profitFold", "idle"}

\* calculateAssetPerformance has just returned
PerformanceReturned == pc = "profitCall"

\* the transaction the fold has just processed, and the Map before it
LastTx == activeTransactions[idx - 1]
MapBeforeLastTx == LedgerFold(activeTransactions, idx - 2)

\* C1: after every transaction of the fold each asset has totalQuantity >= 0
\* and totalInvested >= 0, and totalInvested = 0 whenever totalQuantity = 0.
C1_HoldingsNeverNegative ==
    \A i \in 1..Len(assetMap) :
        /\ Leq(Zero, assetMap[i].totalQuantity)
        /\ Leq(Zero, assetMap[i].totalInvested)
        /\ (assetMap[i].totalQuantity = Zero => assetMap[i].totalInvested = Zero)

\* a sell larger than the positive holdings has just been folded
C1_OversellFolded ==
    /\ pc = "perfFold" /\ idx > 1
    /\ LastTx.type = "sell"
    /\ Pos(LedgerEntry(MapBeforeLastTx, LastTx.asset).totalQuantity)
    /\ Less(LedgerEntry(MapBeforeLastTx, LastTx.asset).totalQuantity, LastTx.quantity)
    /\ LedgerEntry(assetMap, LastTx.asset).totalQuantity = Zero

\* sums over the buys of one asset among the first k transactions of txs
RECURSIVE BoughtQuantity(_, _, _)
BoughtQuantity(txs, k, symbol) ==
    IF k = 0 THEN Zero
    ELSE IF txs[k].type = "buy" /\ txs[k].asset = symbol
         THEN Add(BoughtQuantity(txs, k - 1, symbol), txs[k].quantity)
         ELSE BoughtQuantity(txs, k - 1, symbol)

RECURSIVE BoughtCost(_, _, _)
BoughtCost(txs, k, symbol) ==
    IF k = 0 THEN Zero
    ELSE IF txs[k].type = "buy" /\ txs[k].asset = symbol
         THEN Add(BoughtCost(txs, k - 1, symbol), Mul(txs[k].quantity, txs[k].value))
         ELSE BoughtCost(txs, k - 1, symbol)

NoSells == \A i \in 1..Len(accountTransactions) : accountTransactions[i].type = "buy"

\* C2: for a list without sells every reported asset has totalInvested equal
\* to the sum of quantity * value over its buys and totalQuantity equal to the
\* sum of the bought quantities.
C2_BuysConserveCost ==
    (PerformanceFresh /\ NoSells) =>
        \A i \in 1..Len(performanceData) :
            LET row == performanceData[i]
                n   == Len(accountTransactions)
            IN  /\ row.totalInvested = BoughtCost(accountTransactions, n, row.symbol)
                /\ row.totalQuantity = BoughtQuantity(accountTransactions, n, row.symbol)

\* C3: a sell of exactly the held quantity leaves the asset with
\* totalQuantity = 0 and totalInvested = 0, and an asset whose final
\* quantity is 0 has no row in the result.
C3_ExactSellZeroes ==
    /\ (pc = "perfFold" /\ idx > 1
            /\ LastTx.type = "sell"
            /\ LedgerEntry(MapBeforeLastTx, LastTx.asset).totalQuantity = LastTx.quantity)
        => /\ LedgerEntry(assetMap, LastTx.asset).totalQuantity = Zero
           /\ LedgerEntry(assetMap, LastTx.asset).totalInvested = Zero
    /\ PerformanceFresh =>
           \A i \in 1..Len(assetMap) :
               assetMap[i].totalQuantity = Zero =>
                   \A j \in 1..Len(performanceData) :
                       performanceData[j].symbol # assetMap[i].symbol

\* a buy, a partial sell, then a sell of exactly what is left have been folded
C3_LiquidatedAfterPartialSell ==
    /\ pc = "perfFold" /\ idx = 4
    /\ activeTransactions[1].type = "buy"
    /\ activeTransactions[2].type = "sell"
    /\ LastTx.type = "sell"
    /\ activeTransactions[1].asset = LastTx.asset
    /\ activeTransactions[2].asset = LastTx.asset
    /\ LedgerEntry(MapBeforeLastTx, LastTx.asset).totalQuantity = LastTx.quantity
    /\ Less(LastTx.quantity, activeTransactions[1].quantity)
    /\ LedgerEntry(assetMap, LastTx.asset).totalInvested = Zero

\* C5: a calculation leaves the array it was given as the caller built it
\* (the transactions of the account, in the account's order).
C5_InputListUntouched == activeTransactions = accountTransactions

(***************************************************************************)
(* Order of same-day transactions                                          *)
(***************************************************************************)
IndexPermutations(n) ==
    { f \in [1..n -> 1..n] : \A i, j \in 1..n : i # j => f[i] # f[j] }

\* the lists that hold the transactions of txs in another order, where only
\* pairs allowed by mayTurn(a, b) have changed their relative order
Reorderings(txs, mayTurn(_, _)) ==
    { [i \in 1..Len(txs) |-> txs[f[i]]] : f \in
        { g \in IndexPermutations(Len(txs)) :
            \A i, j \in 1..Len(txs) :
                (i < j /\ g[i] > g[j]) => mayTurn(txs[g[i]], txs[g[j]]) } }

SameDay(a, b) == a.date = b.date
SameDayOtherAsset(a, b) == a.date = b.date /\ a.asset # b.asset

\* totalQuantity and totalInvested of every asset of txs as rows report
\* them; an asset without a row holds nothing
RowTotals(rows, txs) ==
    [s \in {txs[i].asset : i \in 1..Len(txs)} |->
        IF \E i \in 1..Len(rows) : rows[i].symbol = s
        THEN LET row == rows[CHOOSE i \in 1..Len(rows) : rows[i].symbol = s]
             IN  <<row.totalQuantity, row.totalInvested>>
        ELSE <<Zero, Zero>>]

\* C4 as claimed: any reordering of same-day transactions gives the same
\* totalQuantity and totalInvested for every asset.
C4_SameDayOrderIrrelevant ==
    PerformanceReturned =>
        \A other \in Reorderings(accountTransactions, SameDay) :
            RowTotals(calculateAssetPerformance(other), other)
                = RowTotals(performanceData, accountTransactions)

\* C4 as amended: reordering same-day transactions of different assets gives
\* the same totalQuantity and totalInvested for every asset.
C4_SameDayOtherAssetOrderIrrelevant ==
    PerformanceReturned =>
        \A other \in Reorderings(accountTransactions, SameDayOtherAsset) :
            RowTotals(calculateAssetPerformance(other), other)
                = RowTotals(performanceData, accountTransactions)

\* three same-day transactions of two assets, with a sell between them
C4_TwoAssetsSameDay ==
    /\ PerformanceReturned
    /\ Len(accountTransactions) = 3
    /\ \A i \in 1..3 : accountTransactions[i].date = accountTransactions[1].date
    /\ accountTransactions[1].asset # accountTransactions[3].asset
    /\ accountTransactions[2].type = "sell"
    /\ Cardinality(Reorderings(accountTransactions, SameDayOtherAsset)) > 1
    /\ Len(performanceData) = 2

(***************************************************************************)
(* Properties of the Profit/Loss Analyzer                                  *)
(***************************************************************************)
\* analysisData is the result for the transactions now in the account
AnalysisFresh == pc = "idle"

AnalysisRowOf(symbol) ==
    analysisData[CHOOSE i \in 1..Len(analysisData) : analysisData[i].symbol = symbol]

\* C6: for every asset with positive holdings the Ledger Aggregator's average
\* cost, totalInvested / totalQuantity, equals the analyzer's averageBuyPrice.
C6_AverageCostsAgree ==
    AnalysisFresh =>
        \A i \in 1..Len(performanceData) :
            LET row == performanceData[i]
            IN  AnalysisRowOf(row.symbol).averageBuyPrice
                    = Div(row.totalInvested, row.totalQuantity)

\* the weighted average price of an asset's buys among the first k of txs
AverageOfBuys(txs, k, symbol) ==
    IF BoughtQuantity(txs, k, symbol) = Zero THEN Zero
    ELSE Div(BoughtCost(txs, k, symbol), BoughtQuantity(txs, k, symbol))

\* the sum over an asset's sells among the first k of txs of
\* quantity * (value - average of the buys that precede the sell)
RECURSIVE BookedProfit(_, _, _)
BookedProfit(txs, k, symbol) ==
    IF k = 0 THEN Zero
    ELSE IF txs[k].type = "sell" /\ txs[k].asset = symbol
         THEN Add(BookedProfit(txs, k - 1, symbol),
                  Mul(txs[k].quantity,
                      Sub(txs[k].value, AverageOfBuys(txs, k - 1, symbol))))
         ELSE BookedProfit(txs, k - 1, symbol)

C7_SellStep ==
    (pc = "profitFold" /\ idx <= Len(activeTransactions)
        /\ activeTransactions[idx].type = "sell") =>
        LET tx      == activeTransactions[idx]
            before  == ProfitEntry(profitMap, tx.asset)
            after   == ProfitEntry(profitMap', tx.asset)
            average == AverageOfBuys(activeTransactions, idx - 1, tx.asset)
        IN  /\ after.averageBuyPrice = before.averageBuyPrice
            /\ after.totalBought = before.totalBought
            /\ before.averageBuyPrice = average
            /\ after.realizedProfit =
                   Add(before.realizedProfit, Mul(tx.quantity, Sub(tx.value, average)))

C7_BookedProfitStands ==
    AnalysisFresh =>
        \A i \in 1..Len(analysisData) :
            analysisData[i].realizedProfit =
                BookedProfit(SortByDate(accountTransactions), Len(accountTransactions),
                             analysisData[i].symbol)

\* C7: the callback for a sell leaves averageBuyPrice and totalBought as they
\* are and adds quantity * (value - averageBuyPrice) to realizedProfit, where
\* averageBuyPrice is the weighted average of the buys before the sell; the
\* realizedProfit returned is the sum of these amounts, whatever buys follow.
C7_SellBooksAtAverageOfEarlierBuys ==
    [][C7_SellStep]_vars /\ []C7_BookedProfitStands

\* buy 1 @ 100, buy 1 @ 300, sell 1 @ 500: average 200, realized 300, 1 left
C7_ScenarioAnalysed ==
    /\ AnalysisFresh
    /\ Len(accountTransactions) = 3
    /\ \A i \in 1..3 : /\ accountTransactions[i].asset = "BTC"
                        /\ accountTransactions[i].quantity = Num(1)
                        /\ accountTransactions[i].date = Day1
    /\ accountTransactions[1].type = "buy" /\ accountTransactions[1].value = Num(100)
    /\ accountTransactions[2].type = "buy" /\ accountTransactions[2].value = Num(300)
    /\ accountTransactions[3].type = "sell" /\ accountTransactions[3].value = Num(500)
    /\ analysisData[1].averageBuyPrice = Num(200)
    /\ analysisData[1].totalBought = Num(2)
    /\ analysisData[1].realizedProfit = Num(300)
    /\ analysisData[1].remainingQuantity = Num(1)

(***************************************************************************)
(* Properties of the allocation simulator                                  *)
(***************************************************************************)
\* the close of symbol on day i of the actual history or, when that day has
\* none, the latest close since the first simulated day; Undefined if none
KnownPrice(in, symbol, i) ==
    LET first == firstInvestmentIndex(in.actualHistory)
        days  == { j \in first..i :
                     getPrice(in.historicalPrices, symbol, in.actualHistory[j].date)
                         # Undefined }
    IN  IF days = {} THEN Undefined
        ELSE getPrice(in.historicalPrices, symbol,
                      in.actualHistory[CHOOSE j \in days : \A k \in days : k <= j].date)

\* what a quantity of symbol is worth on day i
WorthOn(in, symbol, quantity, i) ==
    IF KnownPrice(in, symbol, i) = Undefined THEN Zero
    ELSE Mul(quantity, KnownPrice(in, symbol, i))

\* what the holdings are worth on day i
SimulatedValue(in, quantities, i) ==
    LET Sum[T \in SUBSET SuggestionSymbols(in.suggestion)] ==
            IF T = {} THEN Zero
            ELSE LET s == CHOOSE s \in T : TRUE
                 IN  Add(WorthOn(in, s, quantities[s], i), Sum[T \ {s}])
    IN  Sum[SuggestionSymbols(in.suggestion)]

\* investedValue of day i minus that of the day before
CapitalChangeOn(in, i) ==
    Sub(in.actualHistory[i].investedValue, in.actualHistory[i - 1].investedValue)

LastPoint(sim) == sim.simulatedHistory[Len(sim.simulatedHistory)]

TargetShare(in, symbol, amount) ==
    Mul(amount, Div(SuggestionPercent(in.suggestion, symbol), Num(100)))

C21_DayRule ==
    SimulationDay =>
        LET in          == simulationInput
            i           == simulation.i
            held        == simulation.simulatedQuantities
            after       == simulation'.simulatedQuantities
            reported    == LastPoint(simulation').marketValue
            appreciated == SimulatedValue(in, held, i)
        IN  IF CapitalChangeOn(in, i) = Zero
            THEN after = held /\ reported = appreciated
            ELSE /\ reported = Add(appreciated, CapitalChangeOn(in, i))
                 /\ \A s \in SuggestionSymbols(in.suggestion) :
                        WorthOn(in, s, after[s], i) = TargetShare(in, s, reported)

C21_DayRuleWithThreshold ==
    SimulationDay =>
        LET in          == simulationInput
            i           == simulation.i
            held        == simulation.simulatedQuantities
            after       == simulation'.simulatedQuantities
            reported    == LastPoint(simulation').marketValue
            appreciated == SimulatedValue(in, held, i)
        IN  IF Leq(AbsNum(CapitalChangeOn(in, i)), <<1, 100>>)
            THEN after = held /\ reported = appreciated
            ELSE /\ reported = Add(appreciated, CapitalChangeOn(in, i))
                 /\ \A s \in SuggestionSymbols(in.suggestion) :
                        IF KnownPrice(in, s, i) # Undefined
                        THEN WorthOn(in, s, after[s], i) = TargetShare(in, s, reported)
                        ELSE after[s] = held[s]

C27_MarketValueIsHoldingsValue ==
    (simulation # <<>> /\ Len(simulation.simulatedHistory) > 0) =>
        LastPoint(simulation).marketValue
            = SimulatedValue(simulationInput, simulation.simulatedQuantities,
                             simulation.i - 1)

(***************************************************************************)
(* Properties of the profit analysis metrics                               *)
(***************************************************************************)
SoldAssets == { i \in 1..Len(analysisData) : Pos(analysisData[i].totalSold) }

WonAssets == { i \in SoldAssets : Pos(analysisData[i].realizedProfit) }

\* C22: winRate is within [0, 100], equals 100 * (number of assets with
\* totalSold > 0 and realizedProfit > 0) / (number of assets with
\* totalSold > 0), and is 0 when no asset has been sold or the input is empty.
C22_WinRateOfClosedPositions ==
    RenderDone =>
        /\ Leq(Zero, metrics.winRate) /\ Leq(metrics.winRate, Num(100))
        /\ IF SoldAssets = {}
           THEN metrics.winRate = Zero
           ELSE metrics.winRate
                    = Div(Num(100 * Cardinality(WonAssets)), Num(Cardinality(SoldAssets)))

\* two assets sold, one at a gain and one at a loss
C22_OneWinOneLoss ==
    /\ RenderDone
    /\ Cardinality(SoldAssets) = 2
    /\ Cardinality(WonAssets) = 1
    /\ metrics.winRate = Num(50)

(***************************************************************************)
(* Divisions                                                               *)
(***************************************************************************)
\* a finite number: not undefined, and not the quotient of a division by zero
IsNumber(x) == x # Undefined /\ x[2] > 0

AllNumbers(record, fields) == \A f \in fields : IsNumber(record[f])

\* C24: no core calculation divides by zero: a sell against zero holdings
\* uses average cost 0, variation is 0 when totalInvested is 0, totalVariation
\* is 0 when totalBought * averageBuyPrice is 0, currentAllocation is 0 when
\* the total portfolio value is 0, suggestion quantity is 0 when no positive
\* unit price is known, and every numeric output field is a defined number.
C24_EveryOutputIsANumber ==
    RenderDone =>
        /\ \A i \in 1..Len(assetMap) :
              /\ AllNumbers(assetMap[i], {"totalQuantity", "totalInvested"})
              /\ BoughtQuantity(activeTransactions, Len(activeTransactions),
                                assetMap[i].symbol) = Zero
                    => assetMap[i].totalInvested = Zero
        /\ \A i \in 1..Len(performanceData) :
              /\ AllNumbers(performanceData[i],
                            {"totalQuantity", "totalInvested", "currentValue",
                             "profitLoss", "variation"})
              /\ performanceData[i].totalInvested = Zero
                    => performanceData[i].variation = Zero
        /\ \A i \in 1..Len(analysisData) :
              /\ AllNumbers(analysisData[i],
                            {"totalBought", "totalSold", "remainingQuantity",
                             "averageBuyPrice", "realizedProfit", "currentPrice",
                             "unrealizedProfit", "totalProfit", "totalVariation"})
              /\ Mul(analysisData[i].totalBought, analysisData[i].averageBuyPrice) = Zero
                    => analysisData[i].totalVariation = Zero
        /\ \A i \in 1..Len(suggestions) :
              /\ AllNumbers(suggestions[i],
                            {"amountBRL", "quantity", "currentValue", "targetValue",
                             "currentAllocation", "targetAllocation"})
              /\ SumCurrentValue(performanceData, Len(performanceData),
                                 RowSymbols(performanceData)) = Zero
                    => suggestions[i].currentAllocation = Zero
              /\ ( /\ ~MapHas(performanceData, suggestions[i].symbol)
                   /\ suggestions[i].symbol \notin DOMAIN cryptoData )
                    => suggestions[i].quantity = Zero

\* an asset that was only ever sold, and a purchase suggested while the
\* portfolio is worth nothing
C24_SoldWithoutHoldingsAndWorthlessPortfolio ==
    /\ RenderDone
    /\ \E i \in 1..Len(analysisData) : analysisData[i].totalBought = Zero
    /\ performanceData # <<>>
    /\ SumCurrentValue(performanceData, Len(performanceData),
                       RowSymbols(performanceData)) = Zero
    /\ suggestions # <<>>

(***************************************************************************)
(* Transaction ids                                                         *)
(***************************************************************************)
\* C23: after any sequence of add, import, edit and delete operations the ids
\* of the transactions stored in the account are pairwise distinct.
C23_IdsPairwiseDistinct ==
    \A i, j \in 1..Len(accountTransactions) :
        i # j => accountTransactions[i].id # accountTransactions[j].id

\* ids left after deletions in the middle and additions at the end
C23_IdsWithGaps ==
    /\ pc = "idle"
    /\ [i \in 1..Len(accountTransactions) |-> accountTransactions[i].id] = <<2, 4, 5>>
    /\ accountTransactions[1].type = "sell"

(***************************************************************************)
(* The reconstructor against the ledger                                    *)
(***************************************************************************)
NoneAfterToday ==
    \A i \in 1..Len(accountTransactions) :
        DayNumber(accountTransactions[i].date) <= DayNumber(Today)

\* the reconstructor's running map at the end of a day
PortfolioOn(date) ==
    LET UpTo(tx) == DayNumber(tx.date) <= DayNumber(date)
        txs == SelectSeq(SortByDate(accountTransactions), UpTo)
    IN  ApplyHistoryDay([assetPortfolio |-> <<>>, currentInvested |-> Zero],
                        txs, Len(txs)).assetPortfolio

RECURSIVE SumInvested(_, _)
SumInvested(map, k) ==
    IF k = 0 THEN Zero ELSE Add(SumInvested(map, k - 1), map[k].invested)

RECURSIVE SumTotalInvested(_, _)
SumTotalInvested(rows, k) ==
    IF k = 0 THEN Zero ELSE Add(SumTotalInvested(rows, k - 1), rows[k].totalInvested)

\* C25: for a transaction list dated up to today the investedValue of the
\* last history point is the sum of totalInvested over the rows of the Ledger
\* Aggregator for the same list, and on every day investedValue is the sum of
\* the per-asset invested amounts of the reconstructor's running map, hence
\* never negative.
C25_InvestedValueIsLedgerCost ==
    (HistoryFresh /\ NoneAfterToday) =>
        /\ historyPoints[Len(historyPoints)].investedValue
              = SumTotalInvested(calculateAssetPerformance(accountTransactions),
                                 Len(calculateAssetPerformance(accountTransactions)))
        /\ \A i \in 2..Len(historyPoints) :
              /\ historyPoints[i].investedValue
                    = SumInvested(PortfolioOn(historyPoints[i].date),
                                  Len(PortfolioOn(historyPoints[i].date)))
              /\ Leq(Zero, historyPoints[i].investedValue)

(***************************************************************************)
(* Months and years of the tax report                                      *)
(***************************************************************************)
RECURSIVE SumTotalSales(_, _)
SumTotalSales(reports, k) ==
    IF k = 0 THEN Zero ELSE Add(SumTotalSales(reports, k - 1), reports[k].totalSales)

\* the proceeds of the sells among the first k of txs whose date is of year y
RECURSIVE ProceedsOfYear(_, _, _)
ProceedsOfYear(txs, k, y) ==
    IF k = 0 THEN Zero
    ELSE IF txs[k].type = "sell" /\ txs[k].date[1] = y
         THEN Add(ProceedsOfYear(txs, k - 1, y), Mul(txs[k].quantity, txs[k].value))
         ELSE ProceedsOfYear(txs, k - 1, y)

SellsDatedIn(y, m) ==
    { i \in 1..Len(accountTransactions) :
        /\ accountTransactions[i].type = "sell"
        /\ accountTransactions[i].date[1] = y
        /\ accountTransactions[i].date[2] = m }

\* C26: in the report of year Y every sell whose date string lies in month M
\* of Y adds its proceeds and profit to the report of month M and to no other
\* month, every transaction counts in the year written in its date, whatever
\* the time zone of the environment, and the 12 monthly totalSales sum to the
\* proceeds of all sells dated in Y.
C26_MonthAndYearAsWritten ==
    TaxReportFresh =>
        /\ \A m \in 1..12 :
              /\ taxReport.monthlyReports[m].totalSales =
                     ProceedsOfMonth(accountTransactions, Len(accountTransactions),
                                     taxReport.year, m)
              /\ SellsDatedIn(taxReport.year, m) = {} =>
                     taxReport.monthlyReports[m].realizedProfit = Zero
        /\ SumTotalSales(taxReport.monthlyReports, 12) =
               ProceedsOfYear(accountTransactions, Len(accountTransactions),
                              taxReport.year)

\* C26 where the environment runs on UTC
C26_HoldsOnUTC == timeZone = "UTC" => C26_MonthAndYearAsWritten

(***************************************************************************)
(* Sells against the holdings                                              *)
(***************************************************************************)
\* C28: every sell suggestion asks to sell at most what is held: its quantity
\* does not exceed the asset's totalQuantity and its amountBRL does not exceed
\* the asset's currentValue, for any capitalChange and any anchored set.
C28_SellsAtMostWhatIsHeld ==
    RebalanceDone =>
        \A i \in 1..Len(suggestions) :
            suggestions[i].action = "sell" =>
                /\ IsHeld(suggestions[i].symbol)
                /\ Leq(suggestions[i].quantity, RowOf(suggestions[i].symbol).totalQuantity)
                /\ Leq(suggestions[i].amountBRL, RowOf(suggestions[i].symbol).currentValue)

\* a withdrawal smaller than the portfolio: one holding is sold in part,
\* another in full
C28_PartialAndFullSale ==
    /\ RebalanceDone
    /\ Less(rebalanceInput.capitalChange, Zero)
    /\ Pos(RebalanceableTotal)
    /\ \E i \in 1..Len(suggestions) :
          /\ suggestions[i].action = "sell"
          /\ Less(suggestions[i].quantity, RowOf(suggestions[i].symbol).totalQuantity)
    /\ \E i \in 1..Len(suggestions) :
          /\ suggestions[i].action = "sell"
          /\ suggestions[i].amountBRL = RowOf(suggestions[i].symbol).currentValue

(***************************************************************************)
(* Locks and anchors of the rebalance plan                                 *)
(***************************************************************************)
\* C29: after any sequence of lock toggles, anchor toggles and plan resets
\* from the empty plan no symbol is both locked and anchored.
C29_NeverLockedAndAnchored ==
    \A symbol \in PlanSymbols :
        ~( Flag(rebalancePlan.lockedAllocations, symbol)
           /\ Flag(rebalancePlan.anchoredAssets, symbol) )

\* BTC locked after having been anchored, ETH anchored after having been
\* locked, SHIB untouched since the last reset
C29_LockTakenFromAnchorAndBack ==
    /\ Flag(rebalancePlan.lockedAllocations, "BTC")
    /\ "BTC" \in DOMAIN rebalancePlan.anchoredAssets
    /\ Flag(rebalancePlan.anchoredAssets, "ETH")
    /\ "ETH" \in DOMAIN rebalancePlan.lockedAllocations
    /\ "SHIB" \notin DOMAIN rebalancePlan.lockedAllocations

(***************************************************************************)
(* Price alerts                                                            *)
(***************************************************************************)
\* the alert's condition holds at the quote now shown
HoldsNow(alert) ==
    /\ alert.asset \in DOMAIN liveQuote
    /\ IF alert.condition = "above"
       THEN Leq(alert.targetValue, liveQuote[alert.asset].price)
       ELSE Leq(liveQuote[alert.asset].price, alert.targetValue)

\* how often id occurs among the first k toasts
RECURSIVE TimesNotified(_, _, _)
TimesNotified(log, k, id) ==
    IF k = 0 THEN 0
    ELSE TimesNotified(log, k - 1, id) + (IF log[k] = id THEN 1 ELSE 0)

C30_Step ==
    /\ Len(alerts') >= Len(alerts)
    /\ \A i \in 1..Len(alerts) :
          LET before   == alerts[i]
              after    == alerts'[i]
              notified == TimesNotified(toasts', Len(toasts'), before.id)
                              - TimesNotified(toasts, Len(toasts), before.id)
          IN  /\ notified \in {0, 1}
              /\ notified = 1 => ~before.triggered /\ after.triggered
              /\ (AlertEffect /\ before.triggered /\ ~after.triggered)
                    => before.recurring /\ ~HoldsNow(before)
              /\ (AlertEffect /\ before.triggered /\ ~before.recurring)
                    => after.triggered
    /\ Len(toasts') - Len(toasts) <= Len(alerts)

\* C30: a price alert notifies only on its transition from not triggered to
\* triggered: a triggered alert notifies no more until it is re-armed, a
\* recurring alert is re-armed by the effect only once its condition has
\* stopped holding, and a non-recurring alert that has triggered is never
\* re-armed by the effect.
C30_NotifiesOnTransitionOnly == [][C30_Step]_vars

\* a recurring alert notified a second time after a re-arm, beside a
\* non-recurring one that is still triggered although the quote has left its
\* condition
C30_SecondNotificationAfterRearm ==
    /\ pc = "idle"
    /\ \E i \in 1..Len(alerts) :
          /\ alerts[i].recurring
          /\ TimesNotified(toasts, Len(toasts), alerts[i].id) = 2
    /\ \E i \in 1..Len(alerts) :
          /\ ~alerts[i].recurring
          /\ alerts[i].triggered
          /\ ~HoldsNow(alerts[i])

====
